---- MODULE Spec2Model ----
(***************************************************************************)
(* Model of the KRPC connection engine of kudu-rs                          *)
(* (src/src/rpc/connection.rs): one Connection, its outbound queue, its    *)
(* in-flight table, its send buffer, the transport and the server; and of  *)
(* the Messenger (src/src/rpc/messenger.rs), the registry of connections.  *)
(* Spec and FairSpec take the connection frame by frame, ByteSpec takes    *)
(* its receive path byte by byte, IdSpec takes a connection late in its    *)
(* life, MessengerSpec takes the registry under concurrent callers.        *)
(* RetrySpec takes retry_with_backoff (src/src/util.rs) with the futures   *)
(* and the timer it waits for; CacheSpec and DiscoverySpec take the        *)
(* meta-cache, its tablet entries and its master-leader pointer.           *)
(* EofSpec takes the receive path in front of a server that closes;       *)
(* TimeSpec takes the timestamp conversions of src/src/util.rs, WaitSpec   *)
(* and TimestampSpec the wait loops and the latest observed timestamp of   *)
(* the Client (src/src/client.rs).                                         *)
(***************************************************************************)
EXTENDS Integers, Sequences, FiniteSets, TLC

\* ------------------------------------------------------------------ bounds
\* Number of calls handed to send_request over the connection's lifetime.
MaxCalls == 2
\* Number of complete frames the server can make available for one readable event.
MaxFrames == 2
\* Number of flush calls of one handler whose outcome the transport chooses;
\* any further flush of the same handler would block.
MaxFlush == 1
\* Number of SASL NEGOTIATE messages the server sends on one connection.
MaxNegotiate == 1
\* Serialized sizes (bytes) of a small and of a large request frame.
SmallLen == 64
BigLen == 4096
\* Largest number of bytes one read of the socket returns, short of all of them.
MaxChunk == 3
\* Encoded size (bytes) of a response header.
HeaderLen == 1
\* Threads that call Messenger::start_send, endpoints they name, calls they
\* make in all.
MaxThreads == 2
MaxAddrs == 2
MaxRpcs == 2
\* Largest pool of reactor contexts.
MaxPool == 2
\* ConnectionOptions.max_rpcs_in_flight.
MaxInFlight == 0

\* retry_with_backoff: futures the retry function returns, longest delay
MaxAttempts == 4
MaxDelay == 3

\* meta-cache: callers (each makes one call), tables, largest partition key,
\* configured masters, location RPCs one lookup sends, rounds one discovery
\* makes
MaxCallers == 2
MaxTables == 2
MaxKey == 1
MaxMasters == 3
MaxTries == 2
MaxRounds == 2

\* Threads that call observe_timestamp, the timestamps they observe, and the
\* calls made.
MaxObservers == 2
MaxTimestamp == 2
MaxObservations == 3

\* wait_for_table_creation / wait_for_table_alteration: is-done checks made
MaxChecks == 6

\* time conversions: the width of i64 and u64 in bits, and how far from the
\* extremes, zero and the whole seconds the timestamps converted lie
TimeBits == 24
MaxNear == 4

\* ------------------------------------------------------- program constants
\* send() stops serializing once the send buffer holds this many bytes.
SendBufLimit == 4096
\* Length of the connection header b"hrpc\x09\0\0".
PreambleLen == 7
\* Call ids of the handshake messages and the id set on SASL SUCCESS.
SaslCallId == -33
ContextCallId == -3
InitialCallId == -1
\* Largest value of the i32 call id of the request header.
MaxI32 == 2147483647
\* Size of the big-endian length that precedes every frame.
LenPrefix == 4
\* The multiplier of the FNV hash.
FnvPrime == 16777619

\* Backoff::with_duration_range(32, 2048) of the two wait loops, milliseconds.
WaitBackoffMin == 32
WaitBackoffMax == 2048

\* Microseconds in a second, nanoseconds in a microsecond and in a second.
UsPerSec == 1000000
NanosPerUs == 1000
NanosPerSec == 1000000000

VARIABLES
    state,       \* ConnectionState: "Initiating" | "Connected"
    send_queue,  \* VecDeque<Request>: calls accepted and not yet serialized
    recv_queue,  \* HashMap<i32, Request>: call id -> call serialized, unanswered
    call_id,     \* request_header.call_id
    send_buf,    \* frames buffered for the transport; head may be partly written
    wire,        \* frames the transport has taken completely, in order
    complete,    \* per call: the resolutions of its completion handle, in order
    ntok,        \* number of calls accepted so far by send_request
    status,      \* "open" | the error an operation returned | "closed" | "panicked"
    pc,          \* "idle" | "recv": recv's loop is between two frames
    nread,       \* frames the running recv has processed
    ev,          \* the last step: the operation that ran and its inputs
    \* the receive path of the connection, byte by byte
    recv_buf,    \* Buf: bytes read from the socket and not yet consumed
    sock,        \* bytes that have arrived at the socket and are not yet read
    net,         \* bytes the server has sent that have not arrived yet
    handled,     \* the frames recv has parsed and handled, in order
    served,      \* the frames the server has sent, in order
    \* the Messenger (src/src/rpc/messenger.rs)
    remotes,     \* Inner.remotes: the number of reactor contexts of the pool
    connections, \* Inner.connections: who holds the mutex, and the map
    channels,    \* per connection created: endpoint, context, channel, receiver
    calls,       \* per caller thread: where its start_send is
    returned,    \* per call: what start_send returned
    polled,      \* per connection: the calls its task has taken from the channel
    \* retry_with_backoff (src/src/util.rs)
    backoff,     \* RetryWithBackoff.backoff: the bounds and the magnitude
    sleep,       \* RetryWithBackoff.sleep: the delay armed and the timer's state
    try,         \* RetryWithBackoff.try: Future(attempt) | Err(attempt) | None
    futures,     \* the futures the retry function has returned, in order
    draws,       \* number of next_backoff() calls made
    loop_result, \* what RetryWithBackoff::poll returned last
    last,        \* the last step of the retry loop or of what it waits for
    \* the meta-cache
    cluster,     \* the cluster as it is: masters up, their leader, the tablets
    entries,     \* the live tablet entries of the cache
    master,      \* the master-leader pointer, and the leader known before
    lookups,     \* the location lookups in flight
    discovery,   \* the leader discovery in flight, if any
    callers,     \* per caller: the call it is in and what it was answered
    \* the client and the time conversions
    conv,        \* a timestamp on its way through us_to_time and time_to_us
    wait,        \* the loop of wait_for_table_creation / wait_for_table_alteration
    latest_observed_timestamp, \* Client.latest_observed_timestamp
    observers,   \* per thread: where it is in observe_timestamp, and with what
    observed     \* the timestamps of the observe_timestamp calls that returned, in order

cvars == <<state, send_queue, recv_queue, call_id, send_buf, wire, complete, ntok,
           status, pc, nread, ev>>
bvars == <<recv_buf, sock, net, handled, served>>
mvars == <<remotes, connections, channels, calls, returned, polled>>
rvars == <<backoff, sleep, try, futures, draws, loop_result, last>>
kvars == <<cluster, entries, master, lookups, discovery, callers>>
xvars == <<conv, wait, latest_observed_timestamp, observers, observed>>
ovars == <<rvars, kvars, xvars>>
vars == <<cvars, bvars, mvars, ovars>>

Toks == 1..MaxCalls
ReqLens == {SmallLen, BigLen}
NoTok == 0

\* A Request as far as the connection looks at it: its identity and the size
\* its payload serializes to.
Request(tok, len) == [tok |-> tok, len |-> len]

\* --------------------------------------------------------------- helpers
MapPut(m, k, v) == [x \in (DOMAIN m) \cup {k} |-> IF x = k THEN v ELSE m[x]]
MapRemove(m, k) == [x \in (DOMAIN m) \ {k} |-> m[x]]
EmptyMap == [x \in {} |-> 0]

RECURSIVE BufLen(_)
BufLen(buf) == IF buf = <<>> THEN 0 ELSE Head(buf).left + BufLen(Tail(buf))

SeqToSet(s) == {s[i] : i \in 1..Len(s)}

Errors == {"io", "decode", "remote"}

\* get_call_id() + 1 in i32 arithmetic.
NextCallId(id) == IF id = 2147483647 THEN -2147483647 - 1 ELSE id + 1

\* The connection as one value, so that the methods are operators on it.
\* result is what the running method returns: "ok", an error ("io" from the
\* socket, "decode" from protobuf, "remote" from an ErrorStatusPB; the
\* connection should then be torn down) or "panic"; sent is flush's return value.
Cxn == [state |-> state, send_queue |-> send_queue, recv_queue |-> recv_queue,
        call_id |-> call_id, send_buf |-> send_buf, wire |-> wire,
        complete |-> complete, result |-> "ok", sent |-> 0, fl |-> <<>>]

\* The connection with the outcomes fl of the flush calls the handler will make.
CxnWith(fl) == [Cxn EXCEPT !.fl = fl]

\* ------------------------------------------------------------- transport
FlushOutcomes == {"all", "head", "part", "none", "err"}

WireFrame(f) == [kind |-> f.kind, call_id |-> f.call_id, tok |-> f.tok]

RECURSIVE WireFrames(_)
WireFrames(buf) ==
    IF buf = <<>> THEN <<>> ELSE <<WireFrame(Head(buf))>> \o WireFrames(Tail(buf))

\* The outcome of the next flush of the running handler and the outcomes left.
NextOutcome(fl) == IF fl = <<>> THEN "none" ELSE Head(fl)
RestOutcomes(fl) == IF fl = <<>> THEN <<>> ELSE Tail(fl)

\* flush: write the send buffer to the socket until it is empty, the socket
\* would block, or the socket fails. The head of c.fl is what the socket does
\* this time: take everything, take the rest of the head frame, take the first
\* half of a head frame not yet begun, take nothing (WouldBlock), or fail.
flush(c) ==
    IF c.send_buf = <<>> THEN [c EXCEPT !.sent = 0]
    ELSE LET h == Head(c.send_buf)
             o == NextOutcome(c.fl)
             d == [c EXCEPT !.fl = RestOutcomes(@)]
         IN
         CASE o = "err"  -> [d EXCEPT !.result = "io", !.sent = 0]
           [] o = "none" -> [d EXCEPT !.sent = 0]
           [] o = "all"  -> [d EXCEPT !.wire = @ \o WireFrames(c.send_buf),
                                      !.send_buf = <<>>,
                                      !.sent = BufLen(c.send_buf)]
           [] o = "part" /\ h.left = h.len /\ h.len >= 2 ->
                            [d EXCEPT !.send_buf[1].left = h.len - (h.len \div 2),
                                      !.sent = h.len \div 2]
           [] OTHER      -> [d EXCEPT !.wire = Append(@, WireFrame(h)),
                                      !.send_buf = Tail(@),
                                      !.sent = h.left]

\* ------------------------------------------------------------ serializing
\* send_message: append one length-prefixed frame (header + message) to the
\* send buffer, carrying the call id the request header holds.
send_message(c, kind, tok, len) ==
    [c EXCEPT !.send_buf = Append(@, [kind |-> kind, call_id |-> c.call_id,
                                      tok |-> tok, len |-> len, left |-> len])]

send_connection_header(c) ==
    [c EXCEPT !.send_buf = Append(@, [kind |-> "preamble", call_id |-> 0,
                                      tok |-> NoTok, len |-> PreambleLen,
                                      left |-> PreambleLen])]

send_sasl_negotiate(c) ==
    send_message([c EXCEPT !.call_id = SaslCallId], "NEGOTIATE", NoTok, SmallLen)

send_sasl_initiate(c) ==
    send_message([c EXCEPT !.call_id = SaslCallId], "INITIATE", NoTok, SmallLen)

send_connection_context(c) ==
    send_message([c EXCEPT !.call_id = ContextCallId], "context", NoTok, SmallLen)

\* SerializeFront without the insert into the in-flight table.
MutSerializeNoInsert(c) ==
    LET request == Head(c.send_queue)
        c1 == [c EXCEPT !.send_queue = Tail(@), !.call_id = NextCallId(c.call_id)]
    IN send_message(c1, "request", request.tok, request.len)

\* SerializeFront with pop_back in place of pop_front.
MutSerializeBack(c) ==
    LET n == Len(c.send_queue)
        request == c.send_queue[n]
        id == NextCallId(c.call_id)
        c1 == [c EXCEPT !.send_queue = SubSeq(@, 1, n - 1), !.call_id = id]
        c2 == send_message(c1, "request", request.tok, request.len)
    IN [c2 EXCEPT !.recv_queue = MapPut(@, id, request)]

\* One turn of send's inner loop: pop the front request, give it the next call
\* id, serialize it and enter it in the in-flight table.
SerializeFront(c) ==
    LET request == Head(c.send_queue)
        id == NextCallId(c.call_id)
        c1 == [c EXCEPT !.send_queue = Tail(@), !.call_id = id]
        c2 == send_message(c1, "request", request.tok, request.len)
    IN [c2 EXCEPT !.recv_queue = MapPut(@, id, request)]

RECURSIVE SendInner(_)
SendInner(c) ==
    IF BufLen(c.send_buf) < SendBufLimit /\ c.send_queue # <<>>
    THEN SendInner(SerializeFront(c))
    ELSE c

\* The condition of send's outer loop.
SendLoopCond(c) == c.send_buf # <<>> /\ c.send_queue # <<>>

RECURSIVE SendOuter(_)
SendOuter(c) ==
    IF SendLoopCond(c)
    THEN LET c1 == flush(SendInner(c)) IN
         IF c1.result # "ok" \/ c1.sent = 0 THEN c1
         ELSE SendOuter(c1)
    ELSE c

\* send: asserts the state is Connected, then serializes and flushes.
send(c) ==
    IF c.state # "Connected" THEN [c EXCEPT !.result = "panic"]
    ELSE SendOuter(c)

\* ---------------------------------------------------------------- receiving
\* A frame the server sent: the call id of its response header and what its
\* header and payload are.
\*   ok       a response whose payload decodes
\*   sidecar  a response whose payload decodes and whose header lists sidecars
\*   bad      a response whose payload does not decode
\*   err      is_error, ErrorStatusPB decodes, not fatal
\*   fatal    is_error, ErrorStatusPB decodes, fatal
\*   baderr   is_error, ErrorStatusPB does not decode
\* and, while negotiating, the SASL message the payload decodes to.
ErrorKinds == {"err", "fatal", "baderr"}
ResponseKinds == {"ok", "sidecar", "bad"} \cup ErrorKinds
SaslKinds == {"NEGOTIATE_PLAIN", "NEGOTIATE_NOPLAIN", "SUCCESS", "RESPONSE"}
CallIds == 0..(MaxCalls - 1)
Frame(id, kind) == [call_id |-> id, kind |-> kind]
ConnectedFrames == {Frame(id, k) : id \in CallIds, k \in ResponseKinds}
InitiatingFrames == {Frame(SaslCallId, k) : k \in SaslKinds \cup {"bad"} \cup ErrorKinds}
FramesFor(st) == IF st = "Initiating" THEN InitiatingFrames ELSE ConnectedFrames

\* Resolve the completion handle of a request with an outcome.
Resolve(c, request, outcome) ==
    [c EXCEPT !.complete[request.tok] = Append(@, outcome)]

\* handle_sasl_message without set_call_id(-1) on SUCCESS.
MutHandleSaslKeepId(c, msg) ==
    CASE msg = "NEGOTIATE_PLAIN"   -> flush(send_sasl_initiate(c))
      [] msg = "NEGOTIATE_NOPLAIN" -> [c EXCEPT !.result = "panic"]
      [] msg = "SUCCESS" ->
             send([send_connection_context(c) EXCEPT !.state = "Connected"])
      [] OTHER -> [c EXCEPT !.result = "panic"]

\* handle_sasl_message
handle_sasl_message(c, msg) ==
    CASE msg = "NEGOTIATE_PLAIN"   -> flush(send_sasl_initiate(c))
      [] msg = "NEGOTIATE_NOPLAIN" -> [c EXCEPT !.result = "panic"]
      [] msg = "SUCCESS" ->
             LET c1 == send_connection_context(c) IN
             send([c1 EXCEPT !.state = "Connected", !.call_id = InitialCallId])
      [] OTHER -> [c EXCEPT !.result = "panic"]

\* recv, state Initiating, one whole frame f in the receive buffer.
RecvInitiating(c, f) ==
    IF f.kind \in {"err", "fatal"} THEN [c EXCEPT !.result = "remote"]
    ELSE IF f.kind \in {"bad", "baderr"} THEN [c EXCEPT !.result = "decode"]
    ELSE LET c1 == handle_sasl_message(c, f.kind) IN
         \* the RpcResult of handle_sasl_message is dropped; a panic is not
         IF c1.result = "panic" THEN c1 ELSE [c1 EXCEPT !.result = "ok"]

\* RecvError with the request looked up but left in the in-flight table.
MutRecvErrorKeep(c, f) ==
    IF f.kind = "baderr" THEN [c EXCEPT !.result = "decode"]
    ELSE LET id == f.call_id
             c1 == IF id \in DOMAIN c.recv_queue
                   THEN Resolve(c, c.recv_queue[id], f.kind)
                   ELSE c
         IN IF f.kind = "fatal" THEN [c1 EXCEPT !.result = "remote"] ELSE c1

\* RecvError with every error treated as fatal.
MutRecvErrorAllFatal(c, f) ==
    IF f.kind = "baderr" THEN [c EXCEPT !.result = "decode"]
    ELSE LET id == f.call_id
             c1 == IF id \in DOMAIN c.recv_queue
                   THEN Resolve([c EXCEPT !.recv_queue = MapRemove(@, id)],
                                c.recv_queue[id], f.kind)
                   ELSE c
         IN [c1 EXCEPT !.result = "remote"]

\* RecvError with the fatal check inside the branch of a matching request.
MutRecvErrorFatalIfMatched(c, f) ==
    IF f.kind = "baderr" THEN [c EXCEPT !.result = "decode"]
    ELSE LET id == f.call_id IN
         IF id \in DOMAIN c.recv_queue
         THEN LET c1 == Resolve([c EXCEPT !.recv_queue = MapRemove(@, id)],
                                c.recv_queue[id], f.kind)
              IN IF f.kind = "fatal" THEN [c1 EXCEPT !.result = "remote"] ELSE c1
         ELSE c

\* recv, state Connected, an error response.
RecvError(c, f) ==
    IF f.kind = "baderr" THEN [c EXCEPT !.result = "decode"]
    ELSE LET id == f.call_id
             c1 == IF id \in DOMAIN c.recv_queue
                   THEN Resolve([c EXCEPT !.recv_queue = MapRemove(@, id)],
                                c.recv_queue[id], f.kind)
                   ELSE c
         IN IF f.kind = "fatal" THEN [c1 EXCEPT !.result = "remote"] ELSE c1

\* RecvResponse with the request completed but left in the in-flight table.
MutRecvResponseKeep(c, f) ==
    LET id == f.call_id IN
    IF id \in DOMAIN c.recv_queue
    THEN IF f.kind = "bad" THEN [c EXCEPT !.result = "decode"]
         ELSE IF f.kind = "sidecar" THEN [c EXCEPT !.result = "panic"]
         ELSE Resolve(c, c.recv_queue[id], "ok")
    ELSE c

\* RecvResponse completing the oldest call in flight, whatever the call id.
MutRecvResponseOldest(c, f) ==
    IF DOMAIN c.recv_queue # {}
    THEN LET id == CHOOSE i \in DOMAIN c.recv_queue : \A j \in DOMAIN c.recv_queue : i <= j IN
         IF f.kind = "bad" THEN [c EXCEPT !.result = "decode"]
         ELSE IF f.kind = "sidecar" THEN [c EXCEPT !.result = "panic"]
         ELSE Resolve([c EXCEPT !.recv_queue = MapRemove(@, id)],
                      c.recv_queue[id], "ok")
    ELSE c

\* RecvResponse removing the request before the payload is decoded.
MutRecvResponseRemoveFirst(c, f) ==
    LET id == f.call_id IN
    IF id \in DOMAIN c.recv_queue
    THEN IF f.kind = "bad"
         THEN [c EXCEPT !.recv_queue = MapRemove(@, id), !.result = "decode"]
         ELSE IF f.kind = "sidecar" THEN [c EXCEPT !.result = "panic"]
         ELSE Resolve([c EXCEPT !.recv_queue = MapRemove(@, id)],
                      c.recv_queue[id], "ok")
    ELSE c

\* RecvResponse decoding the payload before the call is looked up.
MutRecvResponseDecodeFirst(c, f) ==
    LET id == f.call_id IN
    IF f.kind = "bad" THEN [c EXCEPT !.result = "decode"]
    ELSE IF id \in DOMAIN c.recv_queue
    THEN IF f.kind = "sidecar" THEN [c EXCEPT !.result = "panic"]
         ELSE Resolve([c EXCEPT !.recv_queue = MapRemove(@, id)],
                      c.recv_queue[id], "ok")
    ELSE c

\* recv, state Connected, a response that is not an error.
RecvResponse(c, f) ==
    LET id == f.call_id IN
    IF id \in DOMAIN c.recv_queue
    THEN IF f.kind = "bad" THEN [c EXCEPT !.result = "decode"]
         ELSE IF f.kind = "sidecar" THEN [c EXCEPT !.result = "panic"]
         ELSE Resolve([c EXCEPT !.recv_queue = MapRemove(@, id)],
                      c.recv_queue[id], "ok")
    ELSE c

RecvConnected(c, f) ==
    IF f.kind \in ErrorKinds THEN RecvError(c, f) ELSE RecvResponse(c, f)

\* One turn of recv's loop with a whole frame read.
RecvFrame(c, f) ==
    IF c.state = "Initiating" THEN RecvInitiating(c, f) ELSE RecvConnected(c, f)

\* event_set: whether the connection registers interest in writable events.
WritableInterest ==
    IF state = "Initiating" THEN send_buf # <<>>
    ELSE send_buf # <<>> \/ send_queue # <<>>

\* ------------------------------------------------------------------ steps
\* The outcomes of the flush calls of one handler.
Oracles == [1..MaxFlush -> FlushOutcomes]
GoodOracles == [1..MaxFlush -> {"all"}]

\* What the connection handled last; writable records whether the readiness
\* event being handled is a writable one (EventSet::is_writable), sasl what
\* handle_sasl_message returned for the frame.
Event(op, frame, tok) ==
    [op |-> op, frame |-> frame, tok |-> tok, writable |-> op = "writable",
     sasl |-> "ok"]

\* The RpcResult of the handle_sasl_message call recv makes for frame f.
SaslResult(c, f) ==
    IF c.state = "Initiating" /\ f.kind \in SaslKinds
    THEN handle_sasl_message(c, f.kind).result
    ELSE "ok"

\* An event of the handler of a readiness event that is writable or not.
Within(e, writable) == [e EXCEPT !.writable = writable]
NoFrame == Frame(0, "none")

\* What the connection has produced for the transport, in order.
Out == wire \o send_buf

\* Number of SASL INITIATE messages the connection has produced.
Initiates == Cardinality({i \in 1..Len(Out) : Out[i].kind = "INITIATE"})

\* Store the connection a method leaves behind. A method that returned Err
\* leaves the connection to be torn down; a panic aborts the process, after
\* which the connection's fields are not observed any more.
Store(c, e, nextpc) ==
    /\ ev' = e
    /\ nread' = IF c.result = "ok" /\ nextpc = "recv" /\ pc = "recv" THEN nread + 1 ELSE 0
    /\ IF c.result = "panic"
       THEN /\ status' = "panicked"
            /\ pc' = "idle"
            /\ UNCHANGED <<state, send_queue, recv_queue, call_id, send_buf, wire, complete>>
       ELSE /\ status' = IF c.result = "ok" THEN "open" ELSE c.result
            /\ pc' = IF c.result = "ok" THEN nextpc ELSE "idle"
            /\ state' = c.state
            /\ send_queue' = c.send_queue
            /\ recv_queue' = c.recv_queue
            /\ call_id' = c.call_id
            /\ send_buf' = c.send_buf
            /\ wire' = c.wire
            /\ complete' = c.complete

\* A step of the connection seen frame by frame: the byte-level receive path
\* and the messenger are not in play.
Commit(c, e, nextpc) == Store(c, e, nextpc) /\ UNCHANGED <<bvars, mvars, ovars>>

\* NewCxn with the SASL NEGOTIATE buffered before the connection header.
MutNewCxnNegotiateFirst(o) ==
    LET c0 == [state |-> "Initiating", send_queue |-> <<>>, recv_queue |-> EmptyMap,
               call_id |-> 0, send_buf |-> <<>>, wire |-> <<>>,
               complete |-> [t \in Toks |-> <<>>], result |-> "ok", sent |-> 0,
               fl |-> <<o>>]
    IN flush(send_connection_header(send_sasl_negotiate(c0)))

\* Connection::new: the connection header and the SASL NEGOTIATE are buffered
\* and flushed before the socket is registered; a flush error fails new.
NewCxn(o) ==
    LET c0 == [state |-> "Initiating", send_queue |-> <<>>, recv_queue |-> EmptyMap,
               call_id |-> 0, send_buf |-> <<>>, wire |-> <<>>,
               complete |-> [t \in Toks |-> <<>>], result |-> "ok", sent |-> 0,
               fl |-> <<o>>]
    IN flush(send_sasl_negotiate(send_connection_header(c0)))

\* The connection as Connection::new leaves it, the transport doing o.
NewState(o) ==
    LET c == NewCxn(o) IN
    /\ state = c.state
    /\ send_queue = c.send_queue
    /\ recv_queue = c.recv_queue
    /\ call_id = c.call_id
    /\ send_buf = c.send_buf
    /\ wire = c.wire
    /\ complete = c.complete
    /\ ntok = 0
    /\ status = "open"
    /\ pc = "idle"
    /\ nread = 0
    /\ ev = Event("new", NoFrame, NoTok)

\* Nothing received yet.
NoBytes ==
    /\ recv_buf = <<>> /\ sock = <<>> /\ net = <<>>
    /\ handled = <<>> /\ served = <<>>

\* A messenger with one context and no connection, which no thread calls.
NoMessenger ==
    /\ remotes = 1
    /\ connections = [lock |-> 0, map |-> EmptyMap]
    /\ channels = <<>>
    /\ calls = <<>>
    /\ returned = <<>>
    /\ polled = {}

\* No retry loop is in play: one that has ended at once.
NoRetry ==
    /\ backoff = [initial |-> 1, max |-> 1, magnitude |-> 1]
    /\ sleep = [duration |-> 1, st |-> "armed"]
    /\ try = [tag |-> "None", id |-> 0]
    /\ futures = <<>>
    /\ draws = 0
    /\ loop_result = [tag |-> "not_ready", item |-> 0]
    /\ last = "new"

\* No caller uses the meta-cache: it is empty, in front of a cluster of one
\* master.
NoCache ==
    /\ cluster = [up |-> {1}, leader |-> 1, split |-> <<>>]
    /\ entries = {}
    /\ master = [leader |-> 0, hint |-> 0]
    /\ lookups = {}
    /\ discovery = [running |-> FALSE, order |-> <<>>, rounds |-> 0, contacted |-> <<>>]
    /\ callers = <<>>

\* No timestamp is being converted, no table is waited for, and no thread
\* observes a timestamp on the client.
NoClient ==
    /\ conv = [pc |-> "done", us |-> 0, debug |-> FALSE,
               time |-> [tv_sec |-> 0, tv_nsec |-> 0], out |-> 0]
    /\ wait = [pc |-> "done", call |-> "none", backoff |-> 0, delay |-> 0,
               answers |-> <<>>]
    /\ latest_observed_timestamp = 0
    /\ observers = <<>>
    /\ observed = <<>>

NoOthers == NoRetry /\ NoCache /\ NoClient

InitWith(O) == (\E o \in O : NewState(o)) /\ NoBytes /\ NoMessenger /\ NoOthers

Init == InitWith(FlushOutcomes \ {"err"})

\* send_request, the transport behaving as one of O.
SendRequestIn(O) ==
    /\ status = "open" /\ pc = "idle" /\ ntok < MaxCalls
    /\ \E len \in ReqLens, fl \in O :
          LET tok == ntok + 1
              c0 == [CxnWith(fl) EXCEPT !.send_queue = Append(@, Request(tok, len))]
              c1 == IF c0.state = "Connected" /\ c0.send_buf = <<>>
                       /\ Len(c0.send_queue) = 1
                    THEN send(c0) ELSE c0
          IN /\ \E c \in {c1} : Commit(c, Event("send_request", NoFrame, tok), "idle")
             /\ ntok' = tok

\* ready with a writable event (and not a readable one).
ReadyWritableIn(O) ==
    /\ status = "open" /\ pc = "idle" /\ WritableInterest
    /\ \E fl \in O :
          \E c \in {send(CxnWith(fl))} : Commit(c, Event("writable", NoFrame, NoTok), "idle")
    /\ UNCHANGED ntok

\* ready with a readable event, writable too or not: recv starts (in state
\* Initiating after the assertions that the event is not writable too and the
\* send buffer is empty); in state Connected the writable branch is the else
\* of the readable one.
ReadyReadable ==
    /\ status = "open" /\ pc = "idle"
    /\ \E writable \in {FALSE, WritableInterest} :
          LET c == IF state = "Initiating" /\ (writable \/ send_buf # <<>>)
                   THEN [Cxn EXCEPT !.result = "panic"] ELSE Cxn
          IN Commit(c, Within(Event("readable", NoFrame, NoTok), writable), "recv")
    /\ UNCHANGED ntok

\* recv has read a whole frame, one of F, and handles it.
RecvNextIn(F, O) ==
    /\ status = "open" /\ pc = "recv" /\ nread < MaxFrames
    /\ \E f \in F, fl \in (IF state = "Initiating" THEN O ELSE {<<>>}) :
          /\ f.kind = "NEGOTIATE_PLAIN" => Initiates < MaxNegotiate
          /\ \E c \in {RecvFrame(CxnWith(fl), f)} :
                Commit(c, [Within(Event("recv", f, NoTok), ev.writable)
                              EXCEPT !.sasl = SaslResult(CxnWith(fl), f)], "recv")
    /\ UNCHANGED ntok

\* recv's read finds no whole frame (WouldBlock): recv returns Ok.
RecvBlocked ==
    /\ status = "open" /\ pc = "recv"
    /\ Commit(Cxn, Within(Event("recv_blocked", NoFrame, NoTok), ev.writable), "idle")
    /\ UNCHANGED ntok

\* recv's read fails: recv returns the error.
RecvReadError ==
    /\ status = "open" /\ pc = "recv"
    /\ Commit([Cxn EXCEPT !.result = "io"],
              Within(Event("recv_error", NoFrame, NoTok), ev.writable), "idle")
    /\ UNCHANGED ntok

\* The calls a connection holds: those queued, then those in flight.
RECURSIVE InFlight(_)
InFlight(rq) ==
    IF DOMAIN rq = {} THEN <<>>
    ELSE LET id == CHOOSE i \in DOMAIN rq : \A j \in DOMAIN rq : i <= j IN
         <<rq[id]>> \o InFlight(MapRemove(rq, id))

Pending == send_queue \o InFlight(recv_queue)

RECURSIVE FailAll(_, _)
FailAll(comp, reqs) ==
    IF reqs = <<>> THEN comp
    ELSE FailAll([comp EXCEPT ![Head(reqs).tok] = Append(@, "connection_error")],
                 Tail(reqs))

\* Tear-down of the connection by its owner, after an operation returned an
\* error or on shutdown: every call still queued or in flight is failed with a
\* connection error.
Teardown ==
    /\ status \in {"open"} \cup Errors /\ pc = "idle"
    /\ status' = "closed"
    /\ complete' = FailAll(complete, Pending)
    /\ send_queue' = <<>>
    /\ recv_queue' = EmptyMap
    /\ ev' = Event("teardown", NoFrame, NoTok)
    /\ UNCHANGED <<state, call_id, send_buf, wire, ntok, pc, nread>>
    /\ UNCHANGED <<bvars, mvars, ovars>>

SendRequest == SendRequestIn(Oracles)
ReadyWritable == ReadyWritableIn(Oracles)
RecvNext == RecvNextIn(FramesFor(state), Oracles)

Next ==
    \/ SendRequest
    \/ ReadyWritable
    \/ ReadyReadable
    \/ RecvNext
    \/ RecvBlocked
    \/ RecvReadError
    \/ Teardown

Spec == Init /\ [][Next]_vars

\* ------------------------------------------------- a well-behaved environment
\* The transport takes every write at once, the server negotiates and answers
\* every call it has received, and readiness events are delivered.
OnWire(kind) == \E i \in 1..Len(wire) : wire[i].kind = kind
GoodFrames ==
    IF state = "Initiating"
    THEN {Frame(SaslCallId, "NEGOTIATE_PLAIN") : x \in {1} \cap {y \in {1} : OnWire("NEGOTIATE") /\ Initiates = 0}}
         \cup {Frame(SaslCallId, "SUCCESS") : x \in {1} \cap {y \in {1} : OnWire("INITIATE")}}
    ELSE {Frame(id, "ok") : id \in {i \in DOMAIN recv_queue :
              \E k \in 1..Len(wire) : wire[k].kind = "request" /\ wire[k].call_id = i}}

FairSendRequest == SendRequestIn(GoodOracles)
FairWritable == ReadyWritableIn(GoodOracles)
FairReadable == GoodFrames # {} /\ ReadyReadable
FairRecvNext == RecvNextIn(GoodFrames, GoodOracles)
FairRecvBlocked == nread >= 1 /\ RecvBlocked

FairNext ==
    \/ FairSendRequest
    \/ FairWritable
    \/ FairReadable
    \/ FairRecvNext
    \/ FairRecvBlocked

FairSpec ==
    /\ InitWith({"all"})
    /\ [][FairNext]_vars
    /\ WF_vars(FairWritable)
    /\ WF_vars(FairReadable)
    /\ WF_vars(FairRecvNext)
    /\ WF_vars(FairRecvBlocked)

\* ------------------------------------------------ receiving, byte by byte
Min(a, b) == IF a < b THEN a ELSE b
Take(buf, n) == SubSeq(buf, 1, Min(n, Len(buf)))
Drop(buf, n) == SubSeq(buf, Min(n, Len(buf)) + 1, Len(buf))

\* The payload of a frame: a message of one or two bytes, by its kind.
KindCode(kind) ==
    CASE kind = "ok"              -> 1
      [] kind = "err"             -> 2
      [] kind = "NEGOTIATE_PLAIN" -> 3
      [] kind = "SUCCESS"         -> 4
PayLen(kind) == IF kind \in {"ok", "NEGOTIATE_PLAIN"} THEN 2 ELSE 1
Payload(kind) == [i \in 1..PayLen(kind) |-> KindCode(kind)]

\* The response header: its first byte holds the call id and is_error.
Header(f) ==
    <<2 * (f.call_id - SaslCallId) + (IF f.kind \in ErrorKinds THEN 1 ELSE 0)>>
    \o [i \in 1..(HeaderLen - 1) |-> 0]
\* Merging no bytes leaves the cleared header: call id 0, not an error.
HeaderCallId(buf) == IF buf = <<>> THEN 0 ELSE (buf[1] \div 2) + SaslCallId
HeaderIsError(buf) == buf # <<>> /\ buf[1] % 2 = 1

\* BigEndian u32 write and read.
WriteU32(n) ==
    <<(n \div 16777216) % 256, (n \div 65536) % 256, (n \div 256) % 256, n % 256>>
ReadU32(buf) == ((buf[1] * 256 + buf[2]) * 256 + buf[3]) * 256 + buf[4]

\* A frame as the server writes it: length, header, payload.
Encode(f) == WriteU32(HeaderLen + PayLen(f.kind)) \o Header(f) \o Payload(f.kind)

RECURSIVE EncodeAll(_)
EncodeAll(frames) ==
    IF frames = <<>> THEN <<>> ELSE Encode(Head(frames)) \o EncodeAll(Tail(frames))

\* What the payload decodes to: an ErrorStatusPB when the header says error,
\* else a SaslMessagePB while negotiating and the call's response otherwise.
DecodeKind(st, is_error, payload) ==
    IF is_error
    THEN IF payload = Payload("err") THEN "err" ELSE "baderr"
    ELSE IF st = "Initiating"
    THEN IF payload = Payload("NEGOTIATE_PLAIN") THEN "NEGOTIATE_PLAIN"
         ELSE IF payload = Payload("SUCCESS") THEN "SUCCESS"
         ELSE "bad"
    ELSE IF payload = Payload("ok") THEN "ok" ELSE "bad"

\* The end of the stream, in the place of a byte: once the peer has closed
\* and the bytes before are read, every read of the socket returns Ok(0).
Eof == -1
Closed(bytes) == \E i \in 1..Len(bytes) : bytes[i] = Eof

\* The bytes the socket holds before the end of the stream.
RECURSIVE Available(_)
Available(bytes) ==
    IF bytes = <<>> \/ Head(bytes) = Eof THEN 0 ELSE 1 + Available(Tail(bytes))

\* Connection::read(min): read_from the socket, chunk bytes at a time, until
\* min bytes were received or the socket would block. At the end of the
\* stream read_from returns Ok(0): received stays below min and the loop
\* takes the same turn again, without end.
RECURSIVE ReadFrom(_, _, _, _)
ReadFrom(r, min, received, chunk) ==
    IF received < min /\ r.sock # <<>>
    THEN IF Head(r.sock) = Eof
         THEN [r EXCEPT !.read = received, !.c.result = "diverges"]
         ELSE LET n == Min(chunk, Available(r.sock)) IN
              ReadFrom([r EXCEPT !.buf = @ \o Take(r.sock, n), !.sock = Drop(@, n)],
                       min, received + n, chunk)
    ELSE [r EXCEPT !.read = received]

read(r, min) == ReadFrom(r, min, 0, r.chunk)

\* What recv needs before it parses: the rest of the length, then the rest of
\* the message the length announces.
NeededForLen(buf) == LenPrefix - Len(buf)

\* NeededForMsg without the length prefix counted.
MutNeededForMsgNoPrefix(buf) == ReadU32(buf) - Len(buf)

NeededForMsg(buf) == ReadU32(buf) + LenPrefix - Len(buf)

\* recv from the point where the whole message is in the buffer: consume the
\* length and the header, handle the payload, consume it.
RecvWhole(r) ==
    LET msg_len == ReadU32(r.buf)
        b1 == Drop(r.buf, LenPrefix)
        id == HeaderCallId(b1)
        is_error == HeaderIsError(b1)
        b2 == Drop(b1, HeaderLen)
        payload == Take(b2, msg_len - HeaderLen)
        f == Frame(id, DecodeKind(r.c.state, is_error, payload))
        asserts == r.c.state = "Initiating" /\ r.debug
                   /\ (id # SaslCallId \/ msg_len - HeaderLen # Len(b2))
        c1 == IF asserts THEN [r.c EXCEPT !.result = "panic"]
              ELSE RecvFrame([r.c EXCEPT !.fl = [i \in 1..MaxFlush |-> "all"]], f)
    IN IF c1.result = "ok"
       THEN [r EXCEPT !.c = c1, !.buf = Drop(b2, msg_len - HeaderLen),
                      !.handled = Append(@, f)]
       ELSE [r EXCEPT !.c = c1, !.buf = b2,
                      !.handled = IF asserts THEN @ ELSE Append(@, f)]

\* recv: loop until a read falls short of what is needed (Ok) or a frame
\* makes it return an error.
RECURSIVE RecvLoop(_)
RecvLoop(r) ==
    LET r1 == IF Len(r.buf) < LenPrefix THEN read(r, NeededForLen(r.buf))
              ELSE [r EXCEPT !.read = 0]
    IN
    IF Len(r.buf) < LenPrefix /\ r1.read < NeededForLen(r.buf) THEN r1
    ELSE LET r2 == IF Len(r1.buf) - LenPrefix < ReadU32(r1.buf)
                   THEN read(r1, NeededForMsg(r1.buf))
                   ELSE [r1 EXCEPT !.read = 0]
         IN
         IF Len(r1.buf) - LenPrefix < ReadU32(r1.buf) /\ r2.read < NeededForMsg(r1.buf)
         THEN r2
         ELSE LET r3 == RecvWhole(r2) IN
              IF r3.c.result = "ok" THEN RecvLoop(r3) ELSE r3

\* A server that follows the protocol: it offers PLAIN once it has the
\* client's NEGOTIATE, accepts once it has INITIATE, and answers each call it
\* has received once, with a response or with an error that is not fatal.
Served(kind) == \E i \in 1..Len(served) : served[i].kind = kind
Answered(id) == \E i \in 1..Len(served) :
                    served[i].call_id = id /\ served[i].kind \in {"ok", "err"}
ByteFrames ==
    {Frame(SaslCallId, "NEGOTIATE_PLAIN") : x \in {y \in {1} :
         OnWire("NEGOTIATE") /\ ~Served("NEGOTIATE_PLAIN")}}
    \cup {Frame(SaslCallId, "SUCCESS") : x \in {y \in {1} :
         OnWire("INITIATE") /\ ~Served("SUCCESS")}}
    \cup {Frame(wire[i].call_id, k) : i \in {j \in 1..Len(wire) :
         wire[j].kind = "request" /\ ~Answered(wire[j].call_id)}, k \in {"ok", "err"}}

\* The server writes a frame.
ServerSend ==
    /\ status = "open" /\ ~Closed(net \o sock)
    /\ \E f \in ByteFrames :
          /\ served' = Append(served, f)
          /\ net' = net \o Encode(f)
    /\ UNCHANGED <<cvars, recv_buf, sock, handled, mvars, ovars>>

\* Some of the bytes in transit arrive at the socket.
Deliver ==
    /\ status = "open" /\ net # <<>>
    /\ \E k \in 1..Len(net) :
          /\ sock' = sock \o Take(net, k)
          /\ net' = Drop(net, k)
    /\ UNCHANGED <<cvars, recv_buf, handled, served, mvars, ovars>>

\* ready with a readable event, the socket holding bytes: recv runs, each of
\* its reads returning at most chunk bytes, in a build with or without debug
\* assertions.
ByteReadable ==
    /\ status = "open" /\ pc = "idle" /\ sock # <<>>
    /\ \E chunk \in ((1..MaxChunk) \cup {Available(sock)}) \ {0}, debug \in BOOLEAN :
          LET c0 == IF state = "Initiating" /\ send_buf # <<>>
                    THEN [Cxn EXCEPT !.result = "panic"] ELSE Cxn
              r0 == [c |-> c0, buf |-> recv_buf, sock |-> sock, handled |-> handled,
                     read |-> 0, chunk |-> chunk, debug |-> debug]
          IN \E r \in {IF c0.result = "ok" THEN RecvLoop(r0) ELSE r0} :
                /\ Store(r.c, Event("readable", NoFrame, NoTok), "idle")
                /\ recv_buf' = r.buf
                /\ sock' = r.sock
                /\ handled' = r.handled
    /\ UNCHANGED <<ntok, net, served, mvars, ovars>>

ByteSendRequest == SendRequestIn(GoodOracles)

ByteNext ==
    \/ ByteSendRequest
    \/ ServerSend
    \/ Deliver
    \/ ByteReadable

ByteSpec == InitWith({"all"}) /\ [][ByteNext]_vars

\* The server closes its end of the connection: the end of the stream follows
\* the bytes it has written.
PeerClose ==
    /\ status = "open" /\ ~Closed(net \o sock)
    /\ net' = Append(net, Eof)
    /\ UNCHANGED <<cvars, recv_buf, sock, handled, served, mvars, ovars>>

EofNext ==
    \/ ByteSendRequest
    \/ ServerSend
    \/ Deliver
    \/ ByteReadable
    \/ PeerClose

\* The byte-level connection in front of a server that may close.
EofSpec == InitWith({"all"}) /\ [][EofNext]_vars

\* -------------------------------------------------------------- messenger
Threads == 1..MaxThreads
Addrs == 1..MaxAddrs
NoThread == 0

\* FnvHasher over the address: the code uses only its residue modulo the
\* pool size. The endpoints are numbered, and the hash of a number is taken
\* multiplicatively, in place of the 64-bit FNV-1a hash of the address bytes.
FnvHash(a) == a * FnvPrime

\* RemoteIdx taking the residue modulo one more than the pool size.
MutRemoteIdxOffByOne(h, len) == IF len = 1 THEN 0 ELSE h % (len + 1)

\* The reactor context a new connection is spawned on.
RemoteIdx(h, len) == IF len = 1 THEN 0 ELSE h % len

\* connections.lock(): the mutex can be taken when no thread holds it.
CanLock(holder) == holder = NoThread

\* mpsc::channel(max_rpcs_in_flight): the buffer and the slot of the one
\* Sender the map keeps.
ChannelCap == MaxInFlight + 1

\* Occupied never finding the endpoint: an insert without the lookup.
MutOccupiedNever(map, a) == FALSE

\* entry(addr): whether the map holds a Sender for the endpoint.
Occupied(map, a) == a \in DOMAIN map

\* Messenger::new: a pool of contexts, an empty map; no thread is in
\* start_send. No single connection is looked into.
MessengerInit ==
    /\ remotes \in 1..MaxPool
    /\ connections = [lock |-> NoThread, map |-> EmptyMap]
    /\ channels = <<>>
    /\ calls = [t \in Threads |-> [pc |-> "idle", addr |-> 0, rpc |-> 0]]
    /\ returned = <<>>
    /\ polled = {}
    /\ NewState("all") /\ NoBytes /\ NoOthers

\* A thread calls start_send(rpc) with rpc.addr = a, on its clone of the
\* Messenger.
StartSend(t, a) ==
    /\ calls[t].pc = "idle" /\ Len(returned) < MaxRpcs
    /\ returned' = Append(returned, [addr |-> a, thread |-> t, result |-> "pending"])
    /\ calls' = [calls EXCEPT ![t] = [pc |-> "lock", addr |-> a,
                                       rpc |-> Len(returned) + 1]]
    /\ UNCHANGED <<remotes, connections, channels, polled, cvars, bvars, ovars>>

\* connections.lock()
Lock(t) ==
    /\ calls[t].pc = "lock" /\ CanLock(connections.lock)
    /\ connections' = [connections EXCEPT !.lock = t]
    /\ calls' = [calls EXCEPT ![t].pc = "entry"]
    /\ UNCHANGED <<remotes, channels, returned, polled, cvars, bvars, ovars>>

\* entry(addr).or_insert_with(..): when the map has no Sender for the
\* endpoint, create the channel, spawn the connection on its context and keep
\* the Sender in the map.
Entry(t) ==
    /\ calls[t].pc = "entry"
    /\ LET a == calls[t].addr
           idx == RemoteIdx(FnvHash(a), remotes)
       IN IF Occupied(connections.map, a)
          THEN UNCHANGED <<channels, connections>>
          ELSE /\ channels' = Append(channels, [addr |-> a, idx |-> idx,
                                                 queue |-> <<>>, open |-> TRUE])
               /\ connections' = [connections EXCEPT
                                     !.map = MapPut(@, a, Len(channels) + 1)]
    /\ calls' = [calls EXCEPT ![t].pc = "send"]
    /\ UNCHANGED <<remotes, returned, polled, cvars, bvars, ovars>>

\* Sender::start_send(rpc) and the end of the statement, where the lock is
\* released: the call is queued, or handed back when the channel is full;
\* when the receiver is gone, map_err panics.
Send(t) ==
    /\ calls[t].pc = "send"
    /\ LET ch == connections.map[calls[t].addr]
           rpc == calls[t].rpc
           res == IF ~channels[ch].open THEN "panic"
                  ELSE IF Len(channels[ch].queue) >= ChannelCap THEN "not_ready"
                  ELSE "ready"
       IN /\ returned' = [returned EXCEPT ![rpc].result = res]
          /\ channels' = IF res = "ready"
                          THEN [channels EXCEPT ![ch].queue = Append(@, rpc)]
                          ELSE channels
          /\ calls' = [calls EXCEPT ![t].pc = IF res = "panic" THEN "panicked" ELSE "idle"]
    /\ connections' = [connections EXCEPT !.lock = NoThread]
    /\ UNCHANGED <<remotes, polled, cvars, bvars, ovars>>

\* The connection spawned on context idx takes the next call from its channel.
ConnPoll(ch) ==
    /\ channels[ch].open /\ channels[ch].queue # <<>>
    /\ polled' = polled \cup {[rpc |-> Head(channels[ch].queue), chan |-> ch,
                                 addr |-> channels[ch].addr, ctx |-> channels[ch].idx]}
    /\ channels' = [channels EXCEPT ![ch].queue = Tail(@)]
    /\ UNCHANGED <<remotes, connections, calls, returned, cvars, bvars, ovars>>

\* The connection ends (it could not connect, or it was torn down): it fails
\* the calls still in its channel and drops the receiver.
ConnTerminate(ch) ==
    /\ channels[ch].open
    /\ polled' = polled \cup {[rpc |-> channels[ch].queue[i], chan |-> ch,
                                 addr |-> channels[ch].addr, ctx |-> channels[ch].idx] :
                                i \in 1..Len(channels[ch].queue)}
    /\ channels' = [channels EXCEPT ![ch].queue = <<>>, ![ch].open = FALSE]
    /\ UNCHANGED <<remotes, connections, calls, returned, cvars, bvars, ovars>>

MessengerNext ==
    \/ \E t \in Threads, a \in Addrs : StartSend(t, a)
    \/ \E t \in Threads : Lock(t)
    \/ \E t \in Threads : Entry(t)
    \/ \E t \in Threads : Send(t)
    \/ \E ch \in 1..Len(channels) : ConnPoll(ch)
    \/ \E ch \in 1..Len(channels) : ConnTerminate(ch)

MessengerSpec == MessengerInit /\ [][MessengerNext]_vars

\* ------------------------------------------- a connection late in its life
\* The call id counter is an i32 that send() increments for every call and
\* nothing resets, so a connection that has served k calls holds InitialCallId
\* + k in i32 arithmetic. A connection whose send buffer never drained can go
\* on serializing calls indefinitely; these are the values of the counter
\* just before it overflows and just before it meets the handshake ids.
IdWindow ==
    {MaxI32 - 1, MaxI32, SaslCallId - 2, SaslCallId - 1, ContextCallId - 2,
     ContextCallId - 1}

\* Such a connection after a writable event: its last call is serialized and
\* in flight, the socket took nothing of it, every earlier call was answered.
\* wire records what the transport takes from here on.
IdInit ==
    \E k \in IdWindow, len \in ReqLens :
        /\ state = "Connected"
        /\ send_queue = <<>>
        /\ recv_queue = MapPut(EmptyMap, k, Request(1, len))
        /\ call_id = k
        /\ send_buf = <<[kind |-> "request", call_id |-> k, tok |-> 1,
                          len |-> len, left |-> len]>>
        /\ wire = <<>>
        /\ complete = [t \in Toks |-> <<>>]
        /\ ntok = 1
        /\ status = "open"
        /\ pc = "idle"
        /\ nread = 0
        /\ ev = Event("writable", NoFrame, NoTok)
        /\ NoBytes /\ NoMessenger /\ NoOthers

\* The server answers calls in flight.
IdFrames == {Frame(id, "ok") : id \in DOMAIN recv_queue}
IdRecvNext == RecvNextIn(IdFrames, Oracles)

\* send() in a build with overflow checks: get_call_id() + 1 panics when the
\* counter holds the largest i32 (a build without them wraps, as NextCallId).
SendOverflowPanic ==
    /\ status = "open" /\ pc = "idle" /\ WritableInterest
    /\ state = "Connected" /\ SendLoopCond(Cxn)
    /\ BufLen(send_buf) < SendBufLimit /\ call_id = MaxI32
    /\ Commit([Cxn EXCEPT !.result = "panic"], Event("writable", NoFrame, NoTok), "idle")
    /\ UNCHANGED ntok

IdNext ==
    \/ SendRequest
    \/ ReadyWritable
    \/ ReadyReadable
    \/ IdRecvNext
    \/ RecvBlocked
    \/ SendOverflowPanic

IdSpec == IdInit /\ [][IdNext]_vars

\* ------------------------------------------------------ retry_with_backoff
\* Backoff lives in src/backoff.rs, which is not part of the sources at hand:
\* it is taken from its description (a magnitude that starts at the initial
\* delay and grows to the cap, a delay being the magnitude plus a jitter from
\* a bounded window).
JitterBound == 1
Jitters(b) == 0..Min(JitterBound, b.magnitude)

\* Backoff::with_duration_range(initial, max)
NewBackoff(initial, max) == [initial |-> initial, max |-> max, magnitude |-> initial]

\* next_backoff() keeping the magnitude it has: no growth.
MutNextBackoffNoGrowth(b, jitter) ==
    [backoff |-> b, duration |-> b.magnitude + jitter]

\* Backoff::next_backoff(): the delay for the magnitude reached, and the
\* magnitude grown towards the cap.
NextBackoff(b, jitter) ==
    [backoff |-> [b EXCEPT !.magnitude = Min(2 * b.magnitude, b.max)],
     duration |-> b.magnitude + jitter]

\* RetryCause
Initial == [tag |-> "Initial", of |-> 0]
TimedOut == [tag |-> "TimedOut", of |-> 0]
CauseErr(i) == [tag |-> "Err", of |-> i]

\* What a future is at a poll; the item of a future that succeeds and the
\* error of one that fails are told apart by the future's position.
FutureStates == {"pending", "ok", "err"}
NotReady == [tag |-> "not_ready", item |-> 0]
Ready(i) == [tag |-> "ready", item |-> i]
Panicked == [tag |-> "panicked", item |-> 0]
\* What poll leaves when Try::take finds the slot empty.
Unreachable == [tag |-> "unreachable", item |-> 0]

\* The RetryWithBackoff as one value.
Loop == [backoff |-> backoff, sleep |-> sleep, try |-> try, futures |-> futures,
         draws |-> draws, loop_result |-> loop_result]

\* (self.retry)(Instant::now() + duration, cause): the caller's function
\* returns a future, which is in state st when it is first polled.
Retry(r, cause, st) ==
    [r EXCEPT !.futures = Append(@, [cause |-> cause, st |-> st, seen |-> "none",
                                     dropped |-> FALSE, late |-> FALSE]),
              !.try = [tag |-> "Future", id |-> Len(r.futures) + 1]]

\* timer.sleep(duration)
Sleep(duration) == [duration |-> duration, st |-> "armed"]

\* retry_with_backoff(timer, backoff, retry)
MutRetryWithBackoffTwoDraws(b, jitter, st) ==
    LET n == NextBackoff(NextBackoff(b, jitter).backoff, jitter)
        r == [backoff |-> n.backoff, sleep |-> Sleep(n.duration),
              try |-> [tag |-> "None", id |-> 0], futures |-> <<>>, draws |-> 2,
              loop_result |-> NotReady]
    IN  Retry(r, Initial, st)

RetryWithBackoff(b, jitter, st) ==
    LET n == NextBackoff(b, jitter)
        r == [backoff |-> n.backoff, sleep |-> Sleep(n.duration),
              try |-> [tag |-> "None", id |-> 0], futures |-> <<>>, draws |-> 1,
              loop_result |-> NotReady]
    IN  Retry(r, Initial, st)

\* f.poll() on a future: what it answers, and whether the future had been
\* given up before (it had failed, or it had been dropped).
PollFuture(r, i) ==
    [r EXCEPT !.futures[i].seen = r.futures[i].st,
              !.futures[i].late = @ \/ r.futures[i].dropped
                                    \/ r.futures[i].seen = "err"]

\* The first block of the loop with the error of the future passed on to the
\* caller of poll, as try_ready! would.
MutPollTryErrEnds(r) ==
    IF r.try.tag = "Future"
    THEN LET p == PollFuture(r, r.try.id) IN
         CASE r.futures[r.try.id].st = "ok" ->
                [p EXCEPT !.loop_result = Ready(r.try.id)]
           [] r.futures[r.try.id].st = "pending" -> p
           [] r.futures[r.try.id].st = "err" ->
                [p EXCEPT !.loop_result = [tag |-> "failed", item |-> r.try.id]]
    ELSE r

\* The first block of the loop with the timer looked at before the future:
\* a future that is ready is not looked at once the timer has fired.
MutPollTrySleepFirst(r) ==
    IF r.try.tag = "Future" /\ r.sleep.st # "fired"
    THEN LET p == PollFuture(r, r.try.id) IN
         CASE r.futures[r.try.id].st = "ok" ->
                [p EXCEPT !.loop_result = Ready(r.try.id)]
           [] r.futures[r.try.id].st = "pending" -> p
           [] r.futures[r.try.id].st = "err" ->
                [p EXCEPT !.try = [tag |-> "Err", id |-> r.try.id]]
    ELSE r

\* The first block of the loop: the current future is polled if there is one.
PollTry(r) ==
    IF r.try.tag = "Future"
    THEN LET p == PollFuture(r, r.try.id) IN
         CASE r.futures[r.try.id].st = "ok" ->
                [p EXCEPT !.loop_result = Ready(r.try.id)]
           [] r.futures[r.try.id].st = "pending" -> p
           [] r.futures[r.try.id].st = "err" ->
                [p EXCEPT !.try = [tag |-> "Err", id |-> r.try.id]]
    ELSE r

\* Try::take with the error of a failed attempt forgotten.
MutTryTakeAlwaysTimedOut(r) ==
    [cause |-> TimedOut,
     loop |-> [r EXCEPT !.try = [tag |-> "None", id |-> 0],
                        !.futures[r.try.id].dropped = TRUE]]

\* Try::take and the match on it: the cause for the next attempt; the future
\* or the error taken is dropped.
TryTake(r) ==
    [cause |-> IF r.try.tag = "Future" THEN TimedOut ELSE CauseErr(r.try.id),
     loop |-> [r EXCEPT !.try = [tag |-> "None", id |-> 0],
                        !.futures[r.try.id].dropped = TRUE]]

\* The Ready arm with the assignment to self.try lost when the attempt was
\* still pending: the loop goes on holding the attempt that timed out.
MutAgainKeepsPending(r, jitter, st) ==
    LET n == NextBackoff(r.backoff, jitter)
        a == Retry(r, IF r.try.tag = "Future" THEN TimedOut ELSE CauseErr(r.try.id), st)
    IN  [a EXCEPT !.backoff = n.backoff, !.draws = @ + 1,
                  !.sleep = Sleep(n.duration),
                  !.try = IF r.try.tag = "Future" THEN r.try ELSE @]

\* The Ready arm with the slot left as Try::take leaves it: the future the
\* retry function returns is not stored.
MutAgainLeavesNone(r, jitter, st) ==
    IF r.try.tag = "None" THEN [r EXCEPT !.loop_result = Unreachable]
    ELSE LET n == NextBackoff(r.backoff, jitter)
             t == TryTake(r)
             a == Retry(t.loop, t.cause, st)
         IN  [a EXCEPT !.backoff = n.backoff, !.draws = @ + 1,
                       !.sleep = Sleep(n.duration), !.try = t.loop.try]

\* The Ready arm of the match on sleep.poll(): a delay is drawn, the retry
\* function is called with the cause, the timer is armed anew. Try::take on
\* an empty slot executes unreachable!().
Again(r, jitter, st) ==
    IF r.try.tag = "None" THEN [r EXCEPT !.loop_result = Unreachable]
    ELSE LET n == NextBackoff(r.backoff, jitter)
             t == TryTake(r)
             a == Retry(t.loop, t.cause, st)
         IN  [a EXCEPT !.backoff = n.backoff, !.draws = @ + 1,
                       !.sleep = Sleep(n.duration)]

\* RetryWithBackoff::poll, its loop: jitter and st are what the delay drawn
\* and the future returned turn out to be should the retry function be called.
RECURSIVE PollLoop(_, _, _)
PollLoop(r, jitter, st) ==
    LET p == PollTry(r) IN
    IF p.loop_result.tag # "not_ready" THEN p
    ELSE CASE p.sleep.st = "error" -> [p EXCEPT !.loop_result = Panicked]
           [] p.sleep.st = "fired" -> PollLoop(Again(p, jitter, st), jitter, st)
           [] p.sleep.st = "armed" -> [p EXCEPT !.loop_result = NotReady]

StoreLoop(r) ==
    /\ backoff' = r.backoff
    /\ sleep' = r.sleep
    /\ try' = r.try
    /\ futures' = r.futures
    /\ draws' = r.draws
    /\ loop_result' = r.loop_result

\* The state after retry_with_backoff(timer, backoff, retry) has returned.
RetryInit ==
    /\ \E initial \in 1..MaxDelay :
       \E max \in initial..MaxDelay :
       \E jitter \in Jitters(NewBackoff(initial, max)), st \in FutureStates :
         LET r == RetryWithBackoff(NewBackoff(initial, max), jitter, st) IN
         /\ backoff = r.backoff
         /\ sleep = r.sleep
         /\ try = r.try
         /\ futures = r.futures
         /\ draws = r.draws
         /\ loop_result = r.loop_result
    /\ last = "new"
    /\ NewState("all") /\ NoBytes /\ NoMessenger /\ NoCache /\ NoClient

\* The task that owns the loop polls it, until it has completed.
Poll ==
    /\ loop_result.tag = "not_ready"
    /\ \E jitter \in Jitters(backoff), st \in FutureStates :
       \E r \in {PollLoop(Loop, jitter, st)} :
         /\ Len(r.futures) <= MaxAttempts
         /\ StoreLoop(r)
    /\ last' = "poll"
    /\ UNCHANGED <<cvars, bvars, mvars, kvars, xvars>>

\* A future the retry function returned completes, whether or not the loop
\* still holds it.
AttemptCompletes(i, st) ==
    /\ i \in 1..Len(futures) /\ futures[i].st = "pending"
    /\ futures' = [futures EXCEPT ![i].st = st]
    /\ last' = "completes"
    /\ UNCHANGED <<backoff, sleep, try, draws, loop_result, cvars, bvars, mvars, kvars, xvars>>

\* The delay of the timer elapses.
TimerFires ==
    /\ sleep.st = "armed"
    /\ sleep' = [sleep EXCEPT !.st = "fired"]
    /\ last' = "fires"
    /\ UNCHANGED <<backoff, try, futures, draws, loop_result, cvars, bvars, mvars, kvars, xvars>>

\* The timer cannot serve the sleep (it is out of capacity): sleep.poll()
\* answers with an error.
TimerFails ==
    /\ sleep.st = "armed"
    /\ sleep' = [sleep EXCEPT !.st = "error"]
    /\ last' = "fails"
    /\ UNCHANGED <<backoff, try, futures, draws, loop_result, cvars, bvars, mvars, kvars, xvars>>

Completes == \E i \in 1..MaxAttempts, st \in {"ok", "err"} : AttemptCompletes(i, st)

RetryNext ==
    \/ Poll
    \/ Completes
    \/ TimerFires
    \/ TimerFails

RetrySpec == RetryInit /\ [][RetryNext]_vars

\* -------------------------------------------------------------- meta-cache
\* The meta-cache (src/meta_cache.rs) is not part of the sources at hand; it
\* is taken from its description: a cache of tablet entries keyed by table
\* and partition-key range, a master-leader pointer, one lookup in flight per
\* table and key, one leader discovery in flight.
Callers == 1..MaxCallers
Tables == 1..MaxTables
Keys == 0..MaxKey
KeyEnd == MaxKey + 1
Masters == 1..MaxMasters
NoMaster == 0
NoTable == 0
NoEntry == [table |-> NoTable, lo |-> 0, hi |-> 0]

\* A tablet entry: the table and the range [lo, hi) of partition keys.
TabletEntry(t, lo, hi) == [table |-> t, lo |-> lo, hi |-> hi]
Covers(e, t, k) == e.table = t /\ e.lo <= k /\ k < e.hi
Overlap(e, f) == e.table = f.table /\ e.lo < f.hi /\ f.lo < e.hi

\* The tablet of the cluster that owns key k of table t: a table is one
\* tablet, or two that meet at its split key.
TabletAt(cl, t, k) ==
    LET s == cl.split[t] IN
    IF s = 0 THEN TabletEntry(t, 0, KeyEnd)
    ELSE IF k < s THEN TabletEntry(t, 0, s) ELSE TabletEntry(t, s, KeyEnd)

\* The cached entry that answers for key k of table t, if there is one.
Hit(es, t, k) == {e \in es : Covers(e, t, k)}

\* A lookup result put into the cache next to the entries it overlaps.
MutInsertKeepsOverlapped(es, e) == es \cup {e}

\* A lookup result replaces the entries it overlaps.
Insert(es, e) == {f \in es : ~Overlap(f, e)} \cup {e}

\* An invalidation that clears the table's entries.
MutInvalidateTable(es, e) == {f \in es : f.table # e.table}

\* The invalidation of a tablet removes its entry.
Invalidate(es, e) == es \ {e}

\* The lookup in flight for key k of table t, if there is one.
MutInFlightNone(ls, t, k) == {}

InFlightFor(ls, t, k) == {l \in ls : l.table = t /\ l.key = k}

\* The order in which a discovery tries the masters: the leader known before
\* first, then the rest as configured.
ConfiguredOrder == [i \in 1..MaxMasters |-> i]
IsNot(h) == [m \in Masters |-> m # h]
MutOrderConfigured(hint) == ConfiguredOrder

Order(hint) ==
    IF hint = NoMaster THEN ConfiguredOrder
    ELSE <<hint>> \o SelectSeq(ConfiguredOrder, LAMBDA m : IsNot(hint)[m])

\* Any master that is tried being taken for the leader.
MutAnswersAsLeaderAny(cl, m) == TRUE

\* A master answers a discovery as the leader.
AnswersAsLeader(cl, m) == m \in cl.up /\ m = cl.leader

Idle == [pc |-> "idle", table |-> NoTable, key |-> 0, tablet |-> NoEntry,
         leader |-> NoMaster, how |-> "none"]
\* how: the call was answered from the cache ("hit"), started the lookup or the
\* discovery it waits for ("started"), or joined one in flight ("joined").
Waiting(t, k, how) == [Idle EXCEPT !.pc = "waiting", !.table = t, !.key = k, !.how = how]
\* The callers that wait for the lookup of key k of table t (of the master
\* leader: table NoTable).
WaitingFor(t, k) ==
    {c \in Callers : callers[c].pc = "waiting" /\ callers[c].table = t
                     /\ callers[c].key = k}

\* The tablets of the cluster.
Tablets(cl) == {TabletAt(cl, t, k) : t \in Tables, k \in Keys}

\* A client that has been in use, in front of a cluster whose masters are all
\* up: tablets are cached from earlier lookups, the master leader may be,
\* no call is under way.
CacheInit ==
    /\ \E known \in BOOLEAN :
         /\ cluster = [up |-> Masters, leader |-> 1, split |-> [t \in Tables |-> 0]]
         /\ master = IF known THEN [leader |-> 1, hint |-> 1]
                      ELSE [leader |-> NoMaster, hint |-> NoMaster]
    /\ \E s \in [Tables -> 0..MaxKey] :
         entries \in SUBSET Tablets([split |-> s])
    /\ lookups = {}
    /\ discovery = [running |-> FALSE, order |-> <<>>, rounds |-> 0, contacted |-> <<>>]
    /\ callers = [c \in Callers |-> Idle]
    /\ NewState("all") /\ NoBytes /\ NoMessenger /\ NoRetry /\ NoClient

\* A caller asks for the tablet of key k of table t: a hit answers at once, a
\* lookup in flight for the key is joined, otherwise a lookup starts and its
\* location RPC is sent.
Lookup(c, t, k) ==
    /\ callers[c].pc = "idle"
    /\ IF Hit(entries, t, k) # {}
       THEN /\ callers' = [callers EXCEPT ![c] =
                             [Waiting(t, k, "hit") EXCEPT !.pc = "done",
                                !.tablet = CHOOSE e \in Hit(entries, t, k) : TRUE]]
            /\ UNCHANGED lookups
       ELSE IF InFlightFor(lookups, t, k) # {}
       THEN /\ callers' = [callers EXCEPT ![c] = Waiting(t, k, "joined")]
            /\ UNCHANGED lookups
       ELSE /\ callers' = [callers EXCEPT ![c] = Waiting(t, k, "started")]
            /\ lookups' = lookups \cup {[table |-> t, key |-> k, tries |-> 1, by |-> c]}
    /\ UNCHANGED <<cluster, entries, master, discovery, cvars, bvars, mvars, rvars, xvars>>

\* The master answers the location RPC of a lookup: the tablet it names
\* replaces what it overlaps, and every caller waiting for the lookup gets it.
LocationReply(l) ==
    /\ l \in lookups
    /\ LET e == TabletAt(cluster, l.table, l.key) IN
       /\ entries' = Insert(entries, e)
       /\ callers' = [c \in Callers |->
                        IF c \in WaitingFor(l.table, l.key)
                        THEN [callers[c] EXCEPT !.pc = "done", !.tablet = e]
                        ELSE callers[c]]
    /\ lookups' = lookups \ {l}
    /\ UNCHANGED <<cluster, master, discovery, cvars, bvars, mvars, rvars, xvars>>

\* The location RPC of a lookup fails or times out: the retry loop that
\* drives the lookup sends it again.
LocationRetry(l) ==
    /\ l \in lookups /\ l.tries < MaxTries
    /\ lookups' = (lookups \ {l}) \cup {[l EXCEPT !.tries = @ + 1]}
    /\ UNCHANGED <<cluster, entries, master, discovery, callers, cvars, bvars, mvars, rvars, xvars>>

\* The leader of a cached tablet rejects an operation as not the leader, or
\* as moved: the tablet's entry is invalidated.
InvalidateTablet(e) ==
    /\ e \in entries
    /\ entries' = Invalidate(entries, e)
    /\ UNCHANGED <<cluster, master, lookups, discovery, callers, cvars, bvars, mvars, rvars, xvars>>

\* The cached master rejects a request as not the leader: the pointer is
\* invalidated, the master stays known as the leader before.
InvalidateMaster ==
    /\ master.leader # NoMaster
    /\ master' = [leader |-> NoMaster, hint |-> master.leader]
    /\ UNCHANGED <<cluster, entries, lookups, discovery, callers, cvars, bvars, mvars, rvars, xvars>>

\* A caller asks for the master leader: a cached leader answers at once, a
\* discovery in flight is joined, otherwise a discovery starts.
Discover(c) ==
    /\ callers[c].pc = "idle"
    /\ IF master.leader # NoMaster
       THEN /\ callers' = [callers EXCEPT ![c] =
                             [Idle EXCEPT !.pc = "done", !.leader = master.leader,
                                          !.how = "hit"]]
            /\ UNCHANGED discovery
       ELSE /\ callers' = [callers EXCEPT ![c] =
                             Waiting(NoTable, 0, IF discovery.running THEN "joined"
                                                 ELSE "started")]
            /\ discovery' = IF discovery.running THEN discovery
                            ELSE [running |-> TRUE, order |-> Order(master.hint),
                                  rounds |-> 1, contacted |-> <<>>]
    /\ UNCHANGED <<cluster, entries, master, lookups, cvars, bvars, mvars, rvars, xvars>>

\* The discovery tries the next master: the first that answers as the leader
\* is cached and given to every caller waiting; one that is unreachable or
\* not the leader is passed over.
Contact ==
    /\ discovery.running /\ discovery.order # <<>>
    /\ LET m == Head(discovery.order) IN
       IF AnswersAsLeader(cluster, m)
       THEN /\ master' = [leader |-> m, hint |-> m]
            /\ discovery' = [discovery EXCEPT !.running = FALSE, !.order = <<>>,
                                              !.contacted = Append(@, m)]
            /\ callers' = [c \in Callers |->
                             IF c \in WaitingFor(NoTable, 0)
                             THEN [callers[c] EXCEPT !.pc = "done", !.leader = m]
                             ELSE callers[c]]
       ELSE /\ discovery' = [discovery EXCEPT !.order = Tail(@),
                                              !.contacted = Append(@, m)]
            /\ UNCHANGED <<master, callers>>
    /\ UNCHANGED <<cluster, entries, lookups, cvars, bvars, mvars, rvars, xvars>>

\* No master has answered as the leader: after a backoff delay the discovery
\* goes through the masters again.
NextRound ==
    /\ discovery.running /\ discovery.order = <<>> /\ discovery.rounds < MaxRounds
    /\ discovery' = [discovery EXCEPT !.order = Order(master.hint), !.rounds = @ + 1]
    /\ UNCHANGED <<cluster, entries, master, lookups, callers, cvars, bvars, mvars, rvars, xvars>>

\* The partitioning of a table is altered: it splits at another key, or not
\* at all.
Repartition(t, s) ==
    /\ cluster.split[t] # s
    /\ cluster' = [cluster EXCEPT !.split[t] = s]
    /\ UNCHANGED <<entries, master, lookups, discovery, callers, cvars, bvars, mvars, rvars, xvars>>

Lookups == \E c \in Callers, t \in Tables, k \in Keys : Lookup(c, t, k)
LocationReplies == \E l \in lookups : LocationReply(l)
LocationRetries == \E l \in lookups : LocationRetry(l)
InvalidateTablets == \E e \in entries : InvalidateTablet(e)
Discovers == \E c \in Callers : Discover(c)
Repartitions == \E t \in Tables, s \in 0..MaxKey : Repartition(t, s)

\* The tablet side of the cache: lookups, their RPCs, invalidations.
CacheNext ==
    \/ Lookups
    \/ LocationReplies
    \/ LocationRetries
    \/ InvalidateTablets
    \/ InvalidateMaster
    \/ Repartitions

CacheSpec == CacheInit /\ [][CacheNext]_vars

\* The master side of the cache, in front of masters of which any may be
\* unreachable: nothing is cached, nobody has called.
DiscoveryInit ==
    /\ \E up \in SUBSET Masters, leader \in Masters :
         cluster = [up |-> up, leader |-> leader, split |-> [t \in Tables |-> 0]]
    /\ master = [leader |-> NoMaster, hint |-> NoMaster]
    /\ entries = {}
    /\ lookups = {}
    /\ discovery = [running |-> FALSE, order |-> <<>>, rounds |-> 0, contacted |-> <<>>]
    /\ callers = [c \in Callers |-> Idle]
    /\ NewState("all") /\ NoBytes /\ NoMessenger /\ NoRetry /\ NoClient

DiscoveryNext ==
    \/ Discovers
    \/ Contact
    \/ NextRound
    \/ InvalidateMaster

DiscoverySpec == DiscoveryInit /\ [][DiscoveryNext]_vars

\* The reactor context that runs the discovery goes on running it.
FairDiscoverySpec == DiscoverySpec /\ WF_vars(Contact) /\ WF_vars(NextRound)

\* ------------------------------------------- the latest observed timestamp
Observers == 1..MaxObservers
Timestamps == 0..MaxTimestamp

\* observe_timestamp storing the timestamp whatever the one it holds.
MutObserveTimestampStore(latest, timestamp) == timestamp

\* The body of observe_timestamp under the lock: the timestamp is stored when
\* it is greater than the one held (u64 comparison, no arithmetic).
ObserveTimestamp(latest, timestamp) ==
    IF timestamp > latest THEN timestamp ELSE latest

\* The mutex of latest_observed_timestamp is held by the thread that is
\* between lock() and the end of observe_timestamp.
TimestampLocked == \E t \in DOMAIN observers : observers[t].pc = "locked"

\* Client::new: the timestamp starts at 0; no thread is in observe_timestamp.
TimestampInit ==
    /\ latest_observed_timestamp = 0
    /\ observers = [t \in Observers |-> [pc |-> "idle", timestamp |-> 0]]
    /\ observed = <<>>
    /\ conv = [pc |-> "done", us |-> 0, debug |-> FALSE,
               time |-> [tv_sec |-> 0, tv_nsec |-> 0], out |-> 0]
    /\ wait = [pc |-> "done", call |-> "none", backoff |-> 0, delay |-> 0,
               answers |-> <<>>]
    /\ NewState("all") /\ NoBytes /\ NoMessenger /\ NoRetry /\ NoCache

\* A thread calls observe_timestamp(timestamp) on its clone of the Client.
Observe(t, timestamp) ==
    /\ observers[t].pc = "idle"
    /\ Len(observed) + Cardinality({u \in Observers : observers[u].pc # "idle"})
          < MaxObservations
    /\ observers' = [observers EXCEPT ![t] = [pc |-> "lock", timestamp |-> timestamp]]
    /\ UNCHANGED <<latest_observed_timestamp, observed, conv, wait>>
    /\ UNCHANGED <<cvars, bvars, mvars, rvars, kvars>>

\* self.latest_observed_timestamp.lock()
ObserveLock(t) ==
    /\ observers[t].pc = "lock" /\ ~TimestampLocked
    /\ observers' = [observers EXCEPT ![t].pc = "locked"]
    /\ UNCHANGED <<latest_observed_timestamp, observed, conv, wait>>
    /\ UNCHANGED <<cvars, bvars, mvars, rvars, kvars>>

\* The comparison, the store, and the release of the lock at the end of
\* observe_timestamp.
ObserveStore(t) ==
    /\ observers[t].pc = "locked"
    /\ latest_observed_timestamp' =
          ObserveTimestamp(latest_observed_timestamp, observers[t].timestamp)
    /\ observers' = [observers EXCEPT ![t].pc = "idle"]
    /\ observed' = Append(observed, observers[t].timestamp)
    /\ UNCHANGED <<conv, wait>>
    /\ UNCHANGED <<cvars, bvars, mvars, rvars, kvars>>

Observes == \E t \in Observers, timestamp \in Timestamps : Observe(t, timestamp)
ObserveLocks == \E t \in Observers : ObserveLock(t)
ObserveStores == \E t \in Observers : ObserveStore(t)

TimestampNext ==
    \/ Observes
    \/ ObserveLocks
    \/ ObserveStores

\* Threads sharing one Client observe timestamps.
TimestampSpec == TimestampInit /\ [][TimestampNext]_vars

\* ------------------------------------ waiting for a table to be created
\* The is-done RPC of the two loops, and what the master's answer can be: the
\* response says done or not, or the call fails (the master is unreachable or
\* the deadline of the call passes).
WaitCalls == {"is_create_table_done", "is_alter_table_done"}
WaitResponses == {"done", "not_done", "error"}

\* The state loop_fn starts from, and the Delay the closure makes for it:
\* Backoff::with_duration_range(32, 2048), then next_backoff().
WaitDelay(call, answers, b, jitter) ==
    LET n == NextBackoff(b, jitter) IN
    [pc |-> "delay", call |-> call, backoff |-> n.backoff, delay |-> n.duration,
     answers |-> answers]

\* WaitAnswered breaking out of the loop on every response of the master.
MutWaitAnsweredBreaks(w, response, jitter) ==
    LET a == Append(w.answers, response) IN
    CASE response = "error"    -> [w EXCEPT !.pc = "err", !.answers = a]
      [] OTHER                 -> [w EXCEPT !.pc = "ok", !.answers = a]

\* The future of the is-done call resolves: an error ends the loop with the
\* error; a response that is done breaks out of the loop; one that is not
\* done continues it, and the closure makes the next Delay.
WaitAnswered(w, response, jitter) ==
    LET a == Append(w.answers, response) IN
    CASE response = "error"    -> [w EXCEPT !.pc = "err", !.answers = a]
      [] response = "done"     -> [w EXCEPT !.pc = "ok", !.answers = a]
      [] response = "not_done" -> WaitDelay(w.call, a, w.backoff, jitter)

\* wait_for_table_creation or wait_for_table_alteration has been called and
\* loop_fn has run the closure once.
WaitInit ==
    /\ \E call \in WaitCalls :
       \E jitter \in Jitters(NewBackoff(WaitBackoffMin, WaitBackoffMax)) :
          wait = WaitDelay(call, <<>>, NewBackoff(WaitBackoffMin, WaitBackoffMax), jitter)
    /\ conv = [pc |-> "done", us |-> 0, debug |-> FALSE,
               time |-> [tv_sec |-> 0, tv_nsec |-> 0], out |-> 0]
    /\ latest_observed_timestamp = 0 /\ observers = <<>> /\ observed = <<>>
    /\ NewState("all") /\ NoBytes /\ NoMessenger /\ NoRetry /\ NoCache

\* The Delay elapses: the is-done call is sent to the master.
WaitDelayFires ==
    /\ wait.pc = "delay" /\ Len(wait.answers) < MaxChecks
    /\ wait' = [wait EXCEPT !.pc = "check"]
    /\ UNCHANGED <<conv, latest_observed_timestamp, observers, observed>>
    /\ UNCHANGED <<cvars, bvars, mvars, rvars, kvars>>

\* The timer fails: map_err panics with "timer failed".
WaitDelayFails ==
    /\ wait.pc = "delay"
    /\ wait' = [wait EXCEPT !.pc = "panicked"]
    /\ UNCHANGED <<conv, latest_observed_timestamp, observers, observed>>
    /\ UNCHANGED <<cvars, bvars, mvars, rvars, kvars>>

\* The is-done call resolves.
WaitAnswer ==
    /\ wait.pc = "check"
    /\ \E response \in WaitResponses, jitter \in Jitters(wait.backoff) :
          wait' = WaitAnswered(wait, response, jitter)
    /\ UNCHANGED <<conv, latest_observed_timestamp, observers, observed>>
    /\ UNCHANGED <<cvars, bvars, mvars, rvars, kvars>>

WaitNext ==
    \/ WaitDelayFires
    \/ WaitDelayFails
    \/ WaitAnswer

\* One call of wait_for_table_creation or wait_for_table_alteration.
WaitSpec == WaitInit /\ [][WaitNext]_vars

\* ------------------------------------------------------- time conversions
\* i64 and u64 at the width of TimeBits bits: the microsecond constants of the
\* code are kept, the integers are narrowed so that their extremes are within
\* reach.
I64Min == -(2 ^ (TimeBits - 1))
I64Max == 2 ^ (TimeBits - 1) - 1
U64Mod == 2 ^ TimeBits

\* `as u64` of an i64 and `as i64` of a u64: the same bits.
AsU64(i) == IF i < 0 THEN i + U64Mod ELSE i
AsI64(u) == IF u > I64Max THEN u - U64Mod ELSE u

\* A result of the arithmetic of a build: a build with overflow checks (debug)
\* panics where one without (release) wraps.
Value(v) == [panic |-> FALSE, v |-> v]
Overflow == [panic |-> TRUE, v |-> 0]

\* i64::abs and the unary minus of an i64.
Neg(i, debug) ==
    IF i = I64Min THEN (IF debug THEN Overflow ELSE Value(I64Min)) ELSE Value(-i)
Abs(i, debug) == IF i < 0 THEN Neg(i, debug) ELSE Value(i)

\* SystemTime as the seconds and nanoseconds since UNIX_EPOCH, the
\* nanoseconds in 0..999999999; a Duration as seconds and nanoseconds.
UNIX_EPOCH == [tv_sec |-> 0, tv_nsec |-> 0]
Duration(secs, nanos) == [secs |-> secs, nanos |-> nanos]

\* UNIX_EPOCH + duration and UNIX_EPOCH - duration.
EpochPlus(d) == [tv_sec |-> d.secs, tv_nsec |-> d.nanos]
EpochMinus(d) ==
    IF d.nanos = 0 THEN [tv_sec |-> -d.secs, tv_nsec |-> 0]
    ELSE [tv_sec |-> -d.secs - 1, tv_nsec |-> NanosPerSec - d.nanos]

\* time.duration_since(UNIX_EPOCH): Ok with the duration since the epoch, or
\* Err with the duration until it.
DurationSinceEpoch(time) ==
    IF time.tv_sec >= 0
    THEN [ok |-> TRUE, duration |-> Duration(time.tv_sec, time.tv_nsec)]
    ELSE [ok |-> FALSE,
          duration |-> IF time.tv_nsec = 0 THEN Duration(-time.tv_sec, 0)
                       ELSE Duration(-time.tv_sec - 1, NanosPerSec - time.tv_nsec)]

\* duration.as_secs() * 1000_000 + duration.subsec_nanos() as u64 / 1000, in
\* u64 arithmetic.
DurationUs(d, debug) ==
    LET us == d.secs * UsPerSec + d.nanos \div NanosPerUs IN
    IF us >= U64Mod THEN (IF debug THEN Overflow ELSE Value(us % U64Mod))
    ELSE Value(us)

\* us_to_time
us_to_time(us, debug) ==
    LET abs == Abs(us, debug) IN
    IF abs.panic THEN [panic |-> TRUE, time |-> UNIX_EPOCH]
    ELSE LET a == AsU64(abs.v)
             s == a \div UsPerSec
             ns == (a % UsPerSec) * NanosPerUs
         IN [panic |-> FALSE,
             time |-> IF us < 0 THEN EpochMinus(Duration(s, ns))
                      ELSE EpochPlus(Duration(s, ns))]

\* time_to_us
time_to_us(time, debug) ==
    LET since == DurationSinceEpoch(time)
        us == DurationUs(since.duration, debug)
    IN IF us.panic THEN Overflow
       ELSE IF since.ok THEN Value(AsI64(us.v))
       ELSE Neg(AsI64(us.v), debug)

\* The timestamps converted: those within MaxNear of the extremes of i64, of
\* zero, and of a whole number of seconds on either side of the epoch.
Near(x) == {us \in (x - MaxNear)..(x + MaxNear) : us >= I64Min /\ us <= I64Max}
Inputs ==
    Near(I64Min) \cup Near(-2 * UsPerSec) \cup Near(-UsPerSec) \cup Near(0)
    \cup Near(UsPerSec) \cup Near(2 * UsPerSec) \cup Near(I64Max)

\* A timestamp to convert, in a build with overflow checks or without.
TimeInit ==
    /\ \E us \in Inputs, debug \in BOOLEAN :
          conv = [pc |-> "us", us |-> us, debug |-> debug, time |-> UNIX_EPOCH,
                  out |-> 0]
    /\ wait = [pc |-> "done", call |-> "none", backoff |-> 0, delay |-> 0,
               answers |-> <<>>]
    /\ latest_observed_timestamp = 0 /\ observers = <<>> /\ observed = <<>>
    /\ NewState("all") /\ NoBytes /\ NoMessenger /\ NoRetry /\ NoCache

\* us_to_time(us) is called.
UsToTime ==
    /\ conv.pc = "us"
    /\ \E r \in {us_to_time(conv.us, conv.debug)} :
          conv' = IF r.panic THEN [conv EXCEPT !.pc = "panicked"]
                  ELSE [conv EXCEPT !.pc = "time", !.time = r.time]
    /\ UNCHANGED <<wait, latest_observed_timestamp, observers, observed>>
    /\ UNCHANGED <<cvars, bvars, mvars, rvars, kvars>>

\* time_to_us(&time) is called with the time us_to_time returned.
TimeToUs ==
    /\ conv.pc = "time"
    /\ \E r \in {time_to_us(conv.time, conv.debug)} :
          conv' = IF r.panic THEN [conv EXCEPT !.pc = "panicked"]
                  ELSE [conv EXCEPT !.pc = "done", !.out = r.v]
    /\ UNCHANGED <<wait, latest_observed_timestamp, observers, observed>>
    /\ UNCHANGED <<cvars, bvars, mvars, rvars, kvars>>

TimeNext ==
    \/ UsToTime
    \/ TimeToUs

\* The round trip of the test timestamp_conversion.
TimeSpec == TimeInit /\ [][TimeNext]_vars

\* ================================================================= claims
\* The calls in the outbound queue and in the in-flight table.
QueuedToks == {send_queue[i].tok : i \in 1..Len(send_queue)}
InFlightToks == {recv_queue[i].tok : i \in DOMAIN recv_queue}
\* Where the request frames of a call are in what the connection produced.
SentFrames(tok) == {i \in 1..Len(Out) : Out[i].kind = "request" /\ Out[i].tok = tok}
Serialized(tok) == SentFrames(tok) # {}
SentPos(tok) == CHOOSE i \in SentFrames(tok) : TRUE
SentId(tok) == Out[SentPos(tok)].call_id
Accepted == 1..ntok
Occurrences(tok) ==
    Cardinality({i \in 1..Len(send_queue) : send_queue[i].tok = tok})
    + Cardinality({i \in DOMAIN recv_queue : recv_queue[i].tok = tok})
IsRequest(f) == f.kind = "request"
ReqFrames == SelectSeq(Out, IsRequest)

\* The step is a turn of recv's loop, in state Connected, on a frame of kind K.
IsRecv(K) ==
    /\ pc = "recv" /\ state = "Connected"
    /\ ev'.op = "recv" /\ ev'.frame.kind \in K
    /\ (nread' = nread + 1 \/ pc' = "idle")
    /\ status' # "panicked"

\* C1: every accepted call that is not resolved is in exactly one of send_queue
\* and recv_queue, exactly once; a resolved call is in neither.
C1_ExactlyOneQueue ==
    \A tok \in Accepted :
        IF complete[tok] = <<>> THEN Occurrences(tok) = 1 ELSE Occurrences(tok) = 0

C1_Witness ==
    /\ state = "Connected" /\ status = "open"
    /\ QueuedToks # {} /\ InFlightToks # {}

\* C2: a response with call id X resolves exactly the call that was serialized
\* with id X; every other in-flight call and the outbound queue are unchanged.
C2_Step ==
    IsRecv({"ok", "err", "fatal"}) =>
        LET X == ev'.frame.call_id IN
        /\ send_queue' = send_queue
        /\ IF X \in DOMAIN recv_queue
           THEN LET tok == recv_queue[X].tok IN
                /\ Serialized(tok) /\ SentId(tok) = X
                /\ recv_queue' = MapRemove(recv_queue, X)
                /\ complete' = [complete EXCEPT ![tok] = Append(@, ev'.frame.kind)]
           ELSE recv_queue' = recv_queue /\ complete' = complete

\* C2: every step of the connection matches a response to its call by call id
\* alone, whatever the order in which responses arrive.
C2_MatchedByCallId == [][C2_Step]_vars

\* The second call sent was answered while the first is still in flight.
C2_Witness ==
    /\ ev.op = "recv" /\ ev.frame.kind = "ok"
    /\ ntok = 2 /\ complete[2] = <<"ok">> /\ complete[1] = <<>>
    /\ 1 \in InFlightToks

\* C3: the completion handle of every call is resolved at most once.
C3_ResolvedAtMostOnce == \A tok \in Toks : Len(complete[tok]) <= 1

\* A response repeated the call id of a call already answered.
C3_Witness ==
    /\ ev.op = "recv" /\ ev.frame = Frame(0, "err") /\ status = "open"
    /\ Serialized(1) /\ SentId(1) = 0 /\ complete[1] = <<"ok">>

\* C4: tear-down fails every call then queued or in flight with a connection
\* error, once each, resolves no other call, and leaves no call unresolved.
C4_Step ==
    (ev'.op = "teardown" /\ status # "closed" /\ status' = "closed") =>
        /\ \A tok \in Toks :
              complete'[tok] = IF tok \in QueuedToks \cup InFlightToks
                               THEN <<"connection_error">> ELSE complete[tok]
        /\ send_queue' = <<>> /\ recv_queue' = EmptyMap

C5_EventuallySent ==
    \A tok \in Toks :
        (tok \in Accepted) ~> (tok \in InFlightToks \/ complete[tok] # <<>>)

\* C6: the k-th call serialized carries call id k-1; an entry of the in-flight
\* table is keyed by the id its call was serialized with and is never
\* overwritten.
C6_IdsSequential ==
    /\ \A i \in 1..Len(ReqFrames) : ReqFrames[i].call_id = i - 1
    /\ \A id \in DOMAIN recv_queue :
          Serialized(recv_queue[id].tok) /\ SentId(recv_queue[id].tok) = id

C6_NoOverwrite ==
    \A id \in (DOMAIN recv_queue) \cap (DOMAIN recv_queue') :
        recv_queue'[id] = recv_queue[id]

C7_SentInOrder ==
    /\ \A a, b \in Accepted :
          (a < b /\ Serialized(b)) =>
              /\ Serialized(a)
              /\ SentId(a) < SentId(b)
              /\ SentPos(a) < SentPos(b)
    /\ \A i, j \in 1..Len(send_queue) :
          i < j => send_queue[i].tok < send_queue[j].tok

\* Two calls were serialized by different handlers: the first is on the wire,
\* the second still in the send buffer.
C7_Witness ==
    /\ ntok = 2 /\ Serialized(1) /\ Serialized(2)
    /\ SentPos(1) <= Len(wire) /\ SentPos(2) > Len(wire)

\* C8: an error response that is not fatal removes the call with its call id
\* and fails it with that error; the connection stays Connected, every other
\* call is unchanged, and recv goes on with the next frame.
C8_Step ==
    IsRecv({"err"}) =>
        LET X == ev'.frame.call_id IN
        /\ state' = "Connected" /\ status' = "open" /\ pc' = "recv"
        /\ send_queue' = send_queue /\ send_buf' = send_buf /\ wire' = wire
        /\ recv_queue' = [id \in (DOMAIN recv_queue) \ {X} |-> recv_queue[id]]
        /\ \A tok \in Toks :
              complete'[tok] = IF X \in DOMAIN recv_queue /\ recv_queue[X].tok = tok
                               THEN Append(complete[tok], "err") ELSE complete[tok]

\* C8: every step that handles a non-fatal error response fails the matching
\* call only and leaves the connection running.
C8_NonFatalError == [][C8_Step]_vars

C8_Witness ==
    /\ ev.op = "recv" /\ ev.frame.kind = "err"
    /\ state = "Connected" /\ status = "open" /\ pc = "recv"
    /\ ntok = 2 /\ complete[1] = <<"err">> /\ 2 \in InFlightToks

\* C9: a fatal error response makes recv return the error, matched or not;
\* the connection is then torn down, which fails every remaining call; no call
\* is serialized a second time.
C9_Step ==
    /\ IsRecv({"fatal"}) =>
          /\ status' = "remote" /\ pc' = "idle"
          /\ send_queue' = send_queue /\ Out' = Out
    /\ status = "remote" =>
          /\ status' = "closed"
          /\ \A tok \in QueuedToks \cup InFlightToks :
                complete'[tok] = Append(complete[tok], "connection_error")

\* C9: every step that handles a fatal error response ends recv with that
\* error, the tear-down follows, and no call is ever serialized twice.
C9_FatalError ==
    /\ [][C9_Step]_vars
    /\ [](\A tok \in Toks : Cardinality(SentFrames(tok)) <= 1)

\* A fatal error response matched no call while another call was in flight.
C9_Witness ==
    /\ ev.op = "recv" /\ ev.frame.kind = "fatal" /\ status = "remote"
    /\ ev.frame.call_id \notin DOMAIN recv_queue
    /\ \A tok \in Toks : complete[tok] = <<>>
    /\ InFlightToks # {}

\* C10 (as amended): when the payload of a response does not decode, the
\* matching call stays in the in-flight table, unresolved, and recv returns the
\* decode error at once, on which the connection is to be torn down.
C10_Step ==
    (IsRecv({"bad"}) /\ ev'.frame.call_id \in DOMAIN recv_queue) =>
        /\ recv_queue' = recv_queue /\ complete' = complete
        /\ send_queue' = send_queue
        /\ status' = "decode" /\ pc' = "idle"

\* C10 (as amended): every step that meets an undecodable payload keeps the
\* call in flight and unresolved and ends recv with the decode error.
C10_DecodeFailureReturned == [][C10_Step]_vars

\* C10 (as stated): after such a response the call stays in flight and the
\* connection goes on running, not to be torn down.
C10_OriginalStep ==
    (IsRecv({"bad"}) /\ ev'.frame.call_id \in DOMAIN recv_queue) =>
        /\ recv_queue' = recv_queue /\ complete' = complete
        /\ status' = "open"

\* C10 (as stated): every step that meets an undecodable payload keeps the
\* call in flight and leaves the connection running.
C10_Original == [][C10_OriginalStep]_vars

C10_Witness ==
    /\ ev.op = "recv" /\ ev.frame.kind = "bad" /\ status = "decode"
    /\ state = "Connected"
    /\ ev.frame.call_id \in DOMAIN recv_queue
    /\ complete[recv_queue[ev.frame.call_id].tok] = <<>>

\* The step is a turn of recv's loop on the frame it has read, the connection
\* being in state st.
RecvStep(st) == pc = "recv" /\ state = st /\ ev'.op = "recv"

\* C11: a response that is not an error and whose call id is not in the
\* in-flight table changes nothing: no call is resolved, the queue, the table
\* and the bytes to send stay as they are, recv returns no error, and the
\* connection stays Connected and goes on with the next frame.
C11_Step ==
    (/\ RecvStep("Connected")
     /\ ev'.frame.kind \in {"ok", "sidecar", "bad"}
     /\ ev'.frame.call_id \notin DOMAIN recv_queue) =>
        /\ complete' = complete
        /\ send_queue' = send_queue /\ recv_queue' = recv_queue
        /\ send_buf' = send_buf /\ wire' = wire /\ call_id' = call_id
        /\ state' = "Connected" /\ status' = "open" /\ pc' = "recv"

\* C11: every step that handles a non-error response matching no call in
\* flight drops it silently and leaves the connection running.
C11_UnmatchedDropped == [][C11_Step]_vars

\* A response whose payload does not decode matched no call while a call was
\* in flight, and recv went on.
C11_Witness ==
    /\ ev.op = "recv" /\ ev.frame.kind = "bad"
    /\ state = "Connected" /\ status = "open" /\ pc = "recv"
    /\ InFlightToks # {} /\ ev.frame.call_id \notin DOMAIN recv_queue
    /\ \A tok \in Toks : complete[tok] = <<>>

\* C12: a server NEGOTIATE that does not offer PLAIN makes recv return an
\* error, so that the connection is torn down and its queued calls are failed
\* with a connection error; the process is not aborted.
C12_Step ==
    (RecvStep("Initiating") /\ ev'.frame.kind = "NEGOTIATE_NOPLAIN") =>
        /\ status' \in Errors
        /\ send_queue' = send_queue /\ complete' = complete

\* C12: every step that handles a NEGOTIATE without PLAIN ends recv with an
\* error outcome.
C12_NoPlainIsError == [][C12_Step]_vars

\* C13: while negotiating, a SASL message that is neither NEGOTIATE nor
\* SUCCESS, and an error response, make recv return an error; the connection
\* is then torn down, which fails the queued calls with a connection error,
\* and nothing more is sent.
C13_Step ==
    /\ (RecvStep("Initiating") /\ ev'.frame.kind \in {"RESPONSE", "err", "fatal"}) =>
          /\ status' \in Errors /\ state' = "Initiating"
          /\ send_queue' = send_queue /\ Out' = Out
    /\ (state = "Initiating" /\ status \in Errors) =>
          /\ status' = "closed" /\ Out' = Out
          /\ \A tok \in QueuedToks : complete'[tok] = <<"connection_error">>

\* C13: every step that handles such a message while negotiating is fatal to
\* the connection, and the tear-down follows.
C13_FatalWhileNegotiating == [][C13_Step]_vars

\* C14: the connection is Connected only if it has answered a server
\* NEGOTIATE with INITIATE before the SUCCESS arrived, and a Connected
\* connection never goes back to negotiating.
C14_ConnectedAfterExchange ==
    /\ [](state = "Connected" => Initiates >= 1)
    /\ [][state = "Connected" => state' = "Connected"]_vars

\* The place of a kind of frame in the order of what a connection writes.
Rank(kind) ==
    CASE kind = "preamble"  -> 1
      [] kind = "NEGOTIATE" -> 2
      [] kind = "INITIATE"  -> 3
      [] kind = "context"   -> 4
      [] kind = "request"   -> 5

OutOf(kind) == {i \in 1..Len(Out) : Out[i].kind = kind}

\* C15: what the connection writes is, in this order, the preamble (once,
\* first, present from creation), the client NEGOTIATE, INITIATE, the
\* connection context (once, written on becoming Connected) and then user
\* calls; while negotiating no call is serialized and every accepted call not
\* yet failed is in the outbound queue.
C15_WriteOrder ==
    /\ Len(Out) >= 2
    /\ OutOf("preamble") = {1}
    /\ \A i \in 1..Len(send_buf) :
          send_buf[i].kind = "preamble" => send_buf[i].len = PreambleLen
    /\ OutOf("NEGOTIATE") = {2}
    /\ \A i, j \in 1..Len(Out) : i < j => Rank(Out[i].kind) <= Rank(Out[j].kind)
    /\ Cardinality(OutOf("context")) = IF state = "Connected" THEN 1 ELSE 0
    /\ state = "Initiating" =>
          /\ OutOf("request") = {} /\ recv_queue = EmptyMap
          /\ \A tok \in Accepted : complete[tok] = <<>> => tok \in QueuedToks

\* A call queued while negotiating was serialized by the handler of SUCCESS,
\* after the whole handshake.
C15_Witness ==
    /\ ev.op = "recv" /\ ev.frame.kind = "SUCCESS" /\ state = "Connected"
    /\ Len(Out) = 5
    /\ Out[3].kind = "INITIATE" /\ Out[4].kind = "context"
    /\ Out[5].kind = "request" /\ Out[5].tok = 1

\* C16: the SASL NEGOTIATE and INITIATE messages carry call id -33 and the
\* connection context -3, the two ids differ, and no user call is serialized
\* with either of them, however many calls the connection has sent.
C16_ReservedIds ==
    /\ SaslCallId # ContextCallId /\ SaslCallId < 0 /\ ContextCallId < 0
    /\ \A i \in 1..Len(Out) :
          /\ Out[i].kind \in {"NEGOTIATE", "INITIATE"} => Out[i].call_id = SaslCallId
          /\ Out[i].kind = "context" => Out[i].call_id = ContextCallId
          /\ Out[i].kind = "request" => Out[i].call_id \notin {SaslCallId, ContextCallId}

\* The number of whole frames at the front of a sequence of bytes.
RECURSIVE CountWhole(_)
CountWhole(buf) ==
    IF Len(buf) >= LenPrefix /\ Len(buf) >= LenPrefix + ReadU32(buf)
    THEN 1 + CountWhole(Drop(buf, LenPrefix + ReadU32(buf)))
    ELSE 0

\* How a call is resolved by the frames handled so far.
Resolution(tok) ==
    IF Serialized(tok) /\ \E i \in 1..Len(handled) : handled[i].call_id = SentId(tok)
    THEN <<handled[CHOOSE i \in 1..Len(handled) : handled[i].call_id = SentId(tok)].kind>>
    ELSE <<>>

\* C17: the frames recv has handled are the first frames the server sent, the
\* bytes not yet consumed are exactly the encoding of the others, the receive
\* buffer at rest holds less than one frame, and the calls resolved are those
\* the handled frames answer, however the bytes were split into arrivals and
\* reads.
C17_Framing ==
    /\ Len(handled) <= Len(served)
    /\ handled = SubSeq(served, 1, Len(handled))
    /\ recv_buf \o sock \o net = EncodeAll(SubSeq(served, Len(handled) + 1, Len(served)))
    /\ CountWhole(recv_buf) = 0
    /\ \A tok \in Toks : complete[tok] = Resolution(tok)

\* C17: a run of recv handles exactly the frames whose 4 + length bytes are
\* all in the receive buffer or at the socket; when there is none it
\* consumes nothing of the buffer and resolves no call.
C17_Step ==
    (ev'.op = "readable" /\ sock # <<>> /\ net' = net /\ served' = served) =>
        /\ Len(handled') = Len(handled) + CountWhole(recv_buf \o sock)
        /\ CountWhole(recv_buf \o sock) = 0 =>
              /\ recv_buf' = recv_buf \o sock
              /\ complete' = complete /\ recv_queue' = recv_queue

\* C17: recv parses whole frames only, keeps partial frames buffered, and
\* resolves the same calls for every split of the byte stream.
C17_WholeFramesOnly == []C17_Framing /\ [][C17_Step]_vars

\* A response was handled and the next one is in the buffer with its length
\* read and its message incomplete.
C17_Witness ==
    /\ ev.op = "readable" /\ state = "Connected"
    /\ Len(recv_buf) > LenPrefix
    /\ \E tok \in Toks : complete[tok] # <<>>
    /\ \E tok \in Toks : tok \in InFlightToks

\* The connections created for an endpoint, and where a call is.
ChannelsOf(a) == {ch \in 1..Len(channels) : channels[ch].addr = a}
Queued(rpc, ch) == \E i \in 1..Len(channels[ch].queue) : channels[ch].queue[i] = rpc
Taken(rpc, ch) == \E p \in polled : p.rpc = rpc /\ p.chan = ch
Places(rpc) == {ch \in 1..Len(channels) : Queued(rpc, ch) \/ Taken(rpc, ch)}
Returned == {r \in 1..Len(returned) : returned[r].result \in {"ready", "not_ready"}}

\* At most one connection is ever created for an endpoint, and the map holds
\* its Sender and no other.
OneConnection ==
    /\ \A a \in Addrs : Cardinality(ChannelsOf(a)) <= 1
    /\ \A a \in Addrs : ChannelsOf(a) # {} => a \in DOMAIN connections.map
    /\ \A a \in DOMAIN connections.map : connections.map[a] \in ChannelsOf(a)

\* C18 (as amended): whatever the interleaving of the start_send calls, one
\* connection is created per endpoint, and a call is on the channel of the
\* connection of its endpoint exactly when start_send accepted it; a call
\* that met a full channel is handed back and is on no channel.
C18_OneConnectionPerEndpoint ==
    /\ OneConnection
    /\ \A r \in 1..Len(returned) :
          IF returned[r].result = "ready"
          THEN Places(r) = ChannelsOf(returned[r].addr)
          ELSE Places(r) = {}
    /\ \A ch \in 1..Len(channels) : Len(channels[ch].queue) <= ChannelCap

\* C18 (as stated): one connection is created per endpoint and every call
\* that start_send has returned from, the connection being alive, is on its
\* channel.
C18_Original ==
    /\ OneConnection
    /\ \A r \in Returned : Places(r) = ChannelsOf(returned[r].addr)

\* Two threads named the same endpoint before its connection existed, one
\* waited for the lock while the other created the connection, and both
\* calls were accepted by that one connection.
C18_Witness ==
    /\ Len(returned) = 2 /\ Len(channels) = 1
    /\ returned[1].thread # returned[2].thread
    /\ returned[1].addr = returned[2].addr
    /\ returned[1].result = "ready" /\ returned[2].result = "ready"
    /\ Places(1) = {1} /\ Places(2) = {1}

\* C19: the context of a connection is the hash of its endpoint modulo the
\* pool size (0 for a pool of one), an index of the pool, and every call to
\* the endpoint is handled on that context.
C19_Context ==
    /\ \A ch \in 1..Len(channels) :
          /\ channels[ch].idx \in 0..(remotes - 1)
          /\ channels[ch].idx = IF remotes = 1 THEN 0
                                 ELSE FnvHash(channels[ch].addr) % remotes
    /\ \A p \in polled :
          /\ p.ctx \in 0..(remotes - 1)
          /\ p.ctx = IF remotes = 1 THEN 0 ELSE FnvHash(p.addr) % remotes
    /\ \A p, q \in polled : p.addr = q.addr => p.ctx = q.ctx

\* C19: the pool and the context of a connection never change.
C19_Step ==
    /\ remotes' = remotes
    /\ \A ch \in 1..Len(channels) :
          channels'[ch].idx = channels[ch].idx /\ channels'[ch].addr = channels[ch].addr

\* C19: the context that serves an endpoint is a function of the endpoint
\* and the pool alone, inside the pool, and the same for all its traffic.
C19_ContextByEndpoint == []C19_Context /\ [][C19_Step]_vars

\* Calls to two endpoints were handled on two contexts of the pool.
C19_Witness ==
    /\ remotes = 2
    /\ \E p, q \in polled : p.addr # q.addr /\ p.ctx # q.ctx

\* C20: start_send never panics: a call to an endpoint whose connection is
\* gone is returned from with an error outcome.
C20_NoPanic ==
    /\ \A t \in Threads : calls[t].pc # "panicked"
    /\ \A r \in 1..Len(returned) : returned[r].result # "panic"

\* -------------------------------------------------------------------------
\* The step is a poll of the retry loop.
PollStep == last' = "poll" /\ loop_result.tag = "not_ready"
\* The retry function is called in the step.
Invoked == Len(futures') > Len(futures)
\* The attempt the loop holds, if it holds one.
Current == try.id

\* C21: when a poll finds the current attempt complete with success, the loop
\* completes with that attempt's result, whether or not the backoff timer has
\* fired by then, and the retry function is not called then or later.
C21_Step ==
    /\ (PollStep /\ try.tag = "Future" /\ futures[Current].st = "ok")
         => (loop_result' = Ready(Current) /\ ~Invoked /\ draws' = draws)
    /\ loop_result.tag = "ready" => ~Invoked
C21_SuccessCompletes == [][C21_Step]_vars
C21_Witness ==
    /\ loop_result.tag = "ready" /\ sleep.st = "fired"
    /\ Len(futures) > 1 /\ futures[loop_result.item].seen = "ok"

\* The attempt the loop holds has failed: the loop holds its error, or holds
\* the future and the future has failed.
Failed ==
    \/ try.tag = "Err"
    \/ try.tag = "Future" /\ futures[Current].st = "err"
\* The attempts the retry function was called for with the failure of i.
CausedBy(fs, i) == {j \in 1..Len(fs) : fs[j].cause = CauseErr(i)}

\* C22: after an attempt has failed the retry function is not called before
\* the timer armed with that attempt has fired; a poll that finds it fired
\* calls the function once, with cause Err of that very failure; no failure
\* is the cause of two calls and a failed attempt is not polled again.
C22_Step ==
    /\ (Failed /\ Invoked)
         => /\ sleep.st = "fired"
            /\ Len(futures') = Len(futures) + 1
            /\ futures'[Len(futures')].cause = CauseErr(Current)
    /\ (PollStep /\ Failed /\ sleep.st = "fired") => Invoked
    /\ \A i \in 1..Len(futures') :
         /\ Cardinality(CausedBy(futures', i)) <= 1
         /\ futures'[i].seen = "err" => ~futures'[i].late
C22_FailureWaitsForTimer == [][C22_Step]_vars
C22_Witness ==
    \E j \in 1..Len(futures) :
        /\ futures[j].cause.tag = "Err"
        /\ futures[futures[j].cause.of].seen = "err"
        /\ sleep.st = "armed" /\ try = [tag |-> "Err", id |-> j]

\* The attempts the timer overtook: the next call of the retry function has
\* cause TimedOut.
Overtaken(fs) == {i \in 1..(Len(fs) - 1) : fs[i + 1].cause = TimedOut}

\* C23: a poll that finds the timer fired and the current attempt still
\* pending calls the retry function with cause TimedOut and gives the attempt
\* up: whatever that attempt yields later, it is not polled again, it never
\* completes the loop and it is never the cause of a call.
C23_Step ==
    /\ (PollStep /\ try.tag = "Future" /\ futures[Current].st = "pending"
          /\ sleep.st = "fired")
         => /\ Invoked
            /\ futures'[Current + 1].cause = TimedOut
            /\ futures'[Current].dropped
    /\ \A i \in Overtaken(futures') :
         /\ loop_result' # Ready(i)
         /\ CausedBy(futures', i) = {}
         /\ ~futures'[i].late
         /\ try'.id # i
C23_TimedOutAbandoned == [][C23_Step]_vars
C23_Witness ==
    \E i \in Overtaken(futures) :
        /\ futures[i].st = "ok" /\ futures[i].seen = "pending"
        /\ last = "poll" /\ loop_result.tag = "not_ready"

\* C24 as stated: the loop ends with the result of a successful attempt (the
\* caller gives up through the future its retry function returns) and in no
\* other way.
C24_TwoEndings ==
    \/ loop_result.tag = "not_ready"
    \/ loop_result.tag = "ready" /\ futures[loop_result.item].st = "ok"

\* C24, amended: the loop ends with the result of an attempt that completed
\* successfully, or with the panic of a poll whose timer reported an error;
\* a failure or a timeout of an attempt does not end it, and once ended it
\* stays ended.
C24_Step ==
    /\ loop_result'.tag \in {"not_ready", "ready", "panicked"}
    /\ loop_result'.tag = "ready"
         => /\ try' = [tag |-> "Future", id |-> loop_result'.item]
            /\ futures'[loop_result'.item].st = "ok"
    /\ loop_result'.tag = "panicked" => sleep'.st = "error"
    /\ (PollStep /\ sleep.st # "error" /\ (Failed \/ futures[Current].st = "pending"))
         => \/ loop_result'.tag = "not_ready"
            \/ Invoked /\ loop_result' = Ready(Len(futures'))
    /\ loop_result.tag # "not_ready" => UNCHANGED <<loop_result, try, draws, backoff>>
C24_Endings == [][C24_Step]_vars
C24_Witness ==
    /\ loop_result.tag = "panicked"
    /\ \E i \in 1..Len(futures) : futures[i].seen = "err"
    /\ \E i \in Overtaken(futures) : futures[i].st = "pending"

\* The first n attempts have all been seen to fail.
FirstFailed(n) ==
    /\ Len(futures) >= n
    /\ \A i \in 1..n : futures[i].seen = "err"

\* C25: when the first three attempts fail and the fourth succeeds, the retry
\* function has been called four times in all, once with cause Initial when
\* the loop was built and three times from a poll that found the timer
\* fired, each with the failure before it as the cause; four delays have been
\* drawn, one per call; and the loop has returned the fourth attempt's result.
C25_Scenario ==
    (FirstFailed(3) /\ Len(futures) >= 4 /\ futures[4].seen = "ok")
      => /\ Len(futures) = 4
         /\ futures[1].cause = Initial
         /\ \A i \in 2..4 : futures[i].cause = CauseErr(i - 1)
         /\ draws = 4
         /\ loop_result = Ready(4)
C25_Step ==
    /\ Invoked => (sleep.st = "fired" /\ draws' = draws + 1)
    /\ C25_Scenario'
C25_ThreeRetries == [][C25_Step]_vars
C25_Witness ==
    /\ FirstFailed(3) /\ Len(futures) = 4 /\ futures[4].seen = "ok"
    /\ loop_result = Ready(4)

\* C26: for a Backoff with bounds (initial, max): a delay that does not exceed
\* the cap is followed by one at least as large; no delay is below the initial
\* delay or above the cap plus the jitter bound; next_backoff leaves the bounds
\* as they are and changes the magnitude only, which stays within them.
C26_Step ==
    draws' > draws
      => /\ sleep.duration <= backoff.max => sleep'.duration >= sleep.duration
         /\ backoff'.initial = backoff.initial /\ backoff'.max = backoff.max
         /\ backoff'.magnitude >= backoff.magnitude
C26_Bounded ==
    /\ sleep.duration >= backoff.initial
    /\ sleep.duration <= backoff.max + JitterBound
    /\ backoff.magnitude \in backoff.initial..backoff.max
C26_BackoffDelays == []C26_Bounded /\ [][C26_Step]_vars
C26_Witness ==
    /\ draws >= 3 /\ backoff.initial < backoff.max
    /\ backoff.magnitude = backoff.max /\ sleep.duration > backoff.max

\* -------------------------------------------------------------------------
\* A location RPC is answered in the step.
Replied == \E l \in lookups : l \notin lookups' /\ lookups' = lookups \ {l}
\* The entries of the cache that overlap e, e aside.
Overlapped(es, e) == {f \in es : f # e /\ Overlap(f, e)}

\* C27: in every state no two live entries of a table have overlapping
\* partition-key ranges; the step that takes a lookup result in puts the
\* tablet in, takes out every entry the tablet overlaps, and touches no
\* other entry.
C27_Disjoint == \A e \in entries : Overlapped(entries, e) = {}
C27_Step ==
    Replied =>
      \E e \in entries' :
          /\ entries' \ {e} = {f \in entries : ~Overlap(f, e)} \ {e}
          /\ \A f \in Overlapped(entries, e) : f \notin entries'
C27_NoOverlap == []C27_Disjoint /\ [][C27_Step]_vars
C27_Witness ==
    \E c \in Callers, d \in Callers :
        /\ callers[c].pc = "done" /\ callers[d].pc = "done"
        /\ callers[c].tablet \notin entries /\ callers[d].tablet \in entries
        /\ Overlapped({callers[c].tablet}, callers[d].tablet) # {}
        /\ \E f \in entries : /\ f.table # callers[d].tablet.table
                               /\ f.lo < callers[d].tablet.hi
                               /\ callers[d].tablet.lo < f.hi

\* The lookups under way for key k of table t, and the location RPCs sent
\* for them so far: one when a lookup started, one per attempt since.
LookupsOf(ls, t, k) == {l \in ls : l.table = t /\ l.key = k}
RpcsFor(ls, t, k) == UNION {{<<l.by, n>> : n \in 1..l.tries} : l \in LookupsOf(ls, t, k)}
\* The callers that are in a lookup of key k of table t together.
Together(t, k) == Cardinality(WaitingFor(t, k)) > 1

C28_State ==
    \A t \in Tables, k \in Keys :
        /\ Cardinality(LookupsOf(lookups, t, k)) <= 1
        /\ WaitingFor(t, k) # {} <=> LookupsOf(lookups, t, k) # {}
        /\ Cardinality({c \in WaitingFor(t, k) : callers[c].how = "started"}) <= 1
C28_Step ==
    \A t \in Tables, k \in Keys :
        /\ (WaitingFor(t, k) # {} /\ WaitingFor(t, k)' # WaitingFor(t, k)
              /\ LookupsOf(lookups', t, k) # {})
             => RpcsFor(lookups', t, k) = RpcsFor(lookups, t, k)
        /\ Cardinality(RpcsFor(lookups', t, k)) <= Cardinality(RpcsFor(lookups, t, k)) + 1
        /\ (LookupsOf(lookups, t, k) # {} /\ LookupsOf(lookups', t, k) = {})
             => \A c \in WaitingFor(t, k) :
                    /\ callers'[c].pc = "done"
                    /\ callers'[c].tablet = TabletAt(cluster, t, k)
TabletInvalidated == entries' # entries /\ ~Replied
MasterInvalidated == master.leader # NoMaster /\ master'.leader = NoMaster

\* C29: the invalidation of a tablet removes that tablet's entry and leaves
\* every other entry, the master-leader pointer and the lookups in flight as
\* they are; the invalidation of the master-leader pointer leaves every
\* tablet entry as it is.
C29_Step ==
    /\ TabletInvalidated
         => /\ \E e \in entries : entries' = entries \ {e}
            /\ UNCHANGED <<master, lookups, callers>>
    /\ MasterInvalidated => UNCHANGED <<entries, lookups, callers>>
C29_InvalidatesOneEntry == [][C29_Step]_vars
C29_Witness ==
    /\ master.leader = NoMaster /\ master.hint # NoMaster
    /\ \E c \in Callers :
         /\ callers[c].pc = "done" /\ callers[c].tablet \notin entries
         /\ Overlapped(entries, callers[c].tablet) = {}
         /\ \E f \in entries : f.table = callers[c].tablet.table

\* The masters are configured as [A, B, C], the last of them; only C is
\* reachable and C is the leader.
MasterC == MaxMasters
OnlyCLeads == cluster.up = {MasterC} /\ cluster.leader = MasterC
\* A caller calls for the master leader in the step.
Discovering(c) == callers[c].pc = "idle" /\ callers'[c].pc # "idle"

\* C30: with only C reachable and C the leader, a discovery in flight leads
\* to C being cached, after A and B were tried and passed over; no other
\* master is ever cached; and a call for the leader made while C is cached
\* is answered with C in the same step and has no master contacted.
C30_Cached == OnlyCLeads /\ master.leader # NoMaster => master = [leader |-> MasterC, hint |-> MasterC]
C30_Step ==
    \A c \in Callers :
        (OnlyCLeads /\ Discovering(c) /\ master.leader # NoMaster)
          => /\ callers'[c].pc = "done" /\ callers'[c].leader = MasterC
             /\ UNCHANGED <<discovery, master>>
C30_ResolvesToC ==
    /\ (OnlyCLeads /\ discovery.running) ~> (master.leader = MasterC)
    /\ []C30_Cached
    /\ [][C30_Step]_vars
C30_Witness ==
    /\ OnlyCLeads /\ master.leader = MasterC
    /\ discovery.contacted = ConfiguredOrder
    /\ \E c \in Callers, d \in Callers :
         /\ callers[c].pc = "done" /\ callers[c].how = "started"
         /\ callers[d].pc = "done" /\ callers[d].how = "hit"
         /\ callers[d].leader = MasterC

\* -------------------------------------------------------------------------
\* ready hands a writable event to send (connection.rs:99-103, 108-110).
WritableStep == ev'.op = "writable"

\* C32: send is invoked only while the connection is Connected, so that its
\* assert_eq on the state never fails: every writable event the connection
\* handles finds it Connected and does not abort the event loop.
C32_Step == WritableStep => (state = "Connected" /\ status' # "panicked")

\* C32: every step that handles a writable event runs send in state Connected.
C32_SendOnlyConnected == [][C32_Step]_vars

\* C33: once the server's SUCCESS has made the connection Connected, the
\* connection-context message is written to the transport, the transport
\* taking every write, whether or not a user call is queued.
C33_ContextWritten == (state = "Connected") ~> OnWire("context")

\* The handler of a readiness event that was both readable and writable
\* returns Ok in state Connected.
BothHandled ==
    /\ pc = "recv" /\ pc' = "idle" /\ status' = "open"
    /\ state' = "Connected" /\ ev'.writable

\* send has left nothing it would serialize: the send queue is empty or the
\* send buffer is full.
NothingToSerialize ==
    send_queue = <<>> \/ BufLen(send_buf) >= SendBufLimit

\* C34: in state Connected sending and receiving do not block each other: the
\* handler of an event that is both readable and writable receives the frames
\* available and also sends the pending outbound data, so that when it returns
\* no queued call is left that send would serialize.
C34_Step == BothHandled => NothingToSerialize'

\* C34: every handler of a readable and writable event has also sent.
C34_BothDirections == [][C34_Step]_vars

\* C35: an error raised while a SASL message is handled during negotiation (a
\* failure to buffer or flush INITIATE or the connection context, or of the
\* send that follows SUCCESS) is returned by recv, so that the connection is
\* torn down.
C35_Step ==
    (RecvStep("Initiating") /\ ev'.sasl \in Errors) => status' \in Errors

\* C35: every step in which handle_sasl_message returns an error ends recv
\* with that error.
C35_SaslErrorReturned == [][C35_Step]_vars

\* Thread t passes entry(addr).or_insert_with(..) of start_send.
EntryStep(t) == calls[t].pc = "entry" /\ calls'[t].pc = "send"

\* C36: after the connection of an endpoint has terminated, a later
\* start_send naming the endpoint creates a fresh connection for it: the
\* handle start_send goes on with is never the one of a terminated connection.
C36_Step ==
    \A t \in Threads :
        EntryStep(t) => channels'[connections'.map[calls[t].addr]].open

\* C36: every start_send leaves the map lookup with the handle of a live
\* connection.
C36_FreshConnection == [][C36_Step]_vars

\* The attempts the loop holds: the future in its slot.
Held == IF try.tag = "Future" THEN {try.id} ELSE {}

\* The attempts the loop has let go of: those taken out of the slot, and the
\* one whose error took its place in the slot.
LetGo == {i \in 1..Len(futures) :
             futures[i].dropped \/ (try.tag = "Err" /\ try.id = i)}

\* C37: the slot of the current attempt is never empty when poll starts or
\* when Try::take is called, so that unreachable!() is never executed, and
\* at most one attempt is live at any time: every other future the retry
\* function returned has been let go of.
C37_SlotNeverEmpty ==
    /\ try.tag \in {"Future", "Err"}
    /\ loop_result.tag # "unreachable"
    /\ Cardinality(Held) <= 1
    /\ (1..Len(futures)) \ Held \subseteq LetGo

\* Try::take has emptied the slot of an attempt that timed out and of one that
\* failed, and the slot holds the attempt that followed.
C37_Witness ==
    /\ Len(futures) >= 3 /\ try = [tag |-> "Future", id |-> Len(futures)]
    /\ futures[2].cause = TimedOut /\ futures[3].cause = CauseErr(2)
    /\ futures[1].dropped /\ futures[2].dropped
    /\ loop_result.tag = "not_ready" /\ last = "poll"

\* C40: Connection::read terminates for every behaviour of the transport: at
\* the end of the stream, before min bytes were received, read returns and
\* does not take another turn of its loop.
C40_ReadReturns == status # "diverges"

\* The greatest of a set of timestamps that is not empty.
Greatest(S) == CHOOSE x \in S : \A y \in S : y <= x

\* C39: the latest observed timestamp starts at 0, never decreases, and after
\* any interleaving of concurrent observe_timestamp calls it is the greatest
\* of 0 and the timestamps of the calls that have returned.
C39_Step == latest_observed_timestamp' >= latest_observed_timestamp

C39_MonotoneMax ==
    /\ [](latest_observed_timestamp = Greatest({0} \cup SeqToSet(observed)))
    /\ [][C39_Step]_vars

\* A call with a smaller timestamp returned after one with a greater, while
\* another thread waits for the lock, and the greater timestamp is kept.
C39_Witness ==
    /\ Len(observed) = 2 /\ observed[1] > observed[2] /\ observed[2] > 0
    /\ latest_observed_timestamp = observed[1]
    /\ \E t \in Observers : observers[t].pc = "lock"

\* The loop ends with success, gets an answer that is not done, sends a check.
WaitSucceeds == wait.pc # "ok" /\ wait'.pc = "ok"
WaitNotDone ==
    /\ wait.pc = "check" /\ Len(wait'.answers) = Len(wait.answers) + 1
    /\ wait'.answers[Len(wait'.answers)] = "not_done"
WaitChecks == wait.pc # "check" /\ wait'.pc = "check"

\* C38: the wait completes with success only on an is-done check that
\* answered done; an answer that is not done is followed by a further backoff
\* delay and, when that has elapsed, by another check, however many checks
\* were made before.
C38_Step ==
    /\ WaitSucceeds =>
          /\ wait.pc = "check"
          /\ wait'.answers = Append(wait.answers, "done")
    /\ WaitNotDone =>
          /\ wait'.pc = "delay" /\ wait'.delay >= WaitBackoffMin
    /\ WaitChecks => wait.pc = "delay"

\* C38: success only after done, every answer before it not done, and the
\* loop goes on after each of those.
C38_WaitsUntilDone ==
    /\ [](wait.pc = "ok" =>
            /\ wait.answers # <<>>
            /\ \A i \in 1..Len(wait.answers) :
                  wait.answers[i] = (IF i = Len(wait.answers) THEN "done" ELSE "not_done"))
    /\ [][C38_Step]_vars

\* The master answered not done twice and then done, and the wait succeeded.
C38_Witness ==
    /\ wait.pc = "ok" /\ wait.answers = <<"not_done", "not_done", "done">>
    /\ wait.call = "is_create_table_done"

\* C31: for every i64 microsecond value us, the negative ones and the
\* extremes of the range among them, time_to_us(us_to_time(us)) is us: the
\* conversions end, in every build, and give the value back.
C31_RoundTrip ==
    /\ conv.pc # "panicked"
    /\ conv.pc = "done" => conv.out = conv.us

====
